---- MODULE Spec2Model ----
(***************************************************************************)
(* Event tagging API: the stored event log of one game, the denormalized   *)
(* player / team box scores derived from it (stats.py), and the request    *)
(* handlers that change them (routes/events.py, routes/stats.py).          *)
(*                                                                         *)
(* Nullable columns: a NULL player id is written 0 (player ids start at 1  *)
(* and the code tests them for truthiness), a NULL shot_type or            *)
(* last_sub_period is written "NONE", a NULL last_sub_clock is written -1  *)
(* (clocks are validated >= 0).                                            *)
(***************************************************************************)
EXTENDS Integers, Sequences, FiniteSets, TLC

VARIABLES
    events,   \* the rows of game_events of the game: a set of records with id
    stats,    \* the rows of player_game_stats (.p) and team_game_stats (.t)
    applied,  \* history: the events update_stats_for_event was called with
              \* since the aggregate tables were last empty, in call order
    resp,     \* the last request: handler, status code, ids of the events returned
    visible   \* the aggregates the last request committed before its last
              \* statement, one per commit, in order: what another session
              \* could read while the request ran

vars == <<events, stats, applied, resp, visible>>

(* ------------------------------------------------------------------ *)
(* Bounds and input sets                                               *)
(* ------------------------------------------------------------------ *)

\* Event ids range over 1..MaxId, so a game holds at most MaxId events.
MaxId == 2

\* The game row: its two registered teams.
HomeTeam == "home"
AwayTeam == "away"

\* Existing rows of the players table.
Players == {1, 2}

\* Player ids no row of the players table has.
MissingPlayers == {9}

Periods == {"Q1", "Q2", "Q3", "Q4", "OT1", "OT2"}

ShotTypes == {"TWO_POINT", "THREE_POINT", "FREE_THROW"}

EventTypes ==
    {"SHOT_MADE", "SHOT_MISSED", "FOUL", "SUBSTITUTION", "TIMEOUT", "TURNOVER",
     "REBOUND", "STEAL", "BLOCK", "ASSIST", "GAME_START", "GAME_END"}

ShotEvents == {"SHOT_MADE", "SHOT_MISSED"}

\* Request bodies the model submits (the fields the engine reads), in
\* families; the events of one run are drawn from one family.
\* Substitutions at two game instants of a period, and shots of both teams,
\* made and missed ...
LineupInputs ==
    { e \in [event_type : {"SUBSTITUTION"}, period : {"Q4"},
             game_clock_seconds : {480, 400}, player_id : {1, 2},
             second_player_id : {1, 2}, team_id : {HomeTeam},
             shot_type : {"NONE"}] :
        e.player_id # e.second_player_id }
    \cup
    [event_type : ShotEvents, period : {"Q4"}, game_clock_seconds : {480},
     player_id : {1}, second_player_id : {0}, team_id : {HomeTeam},
     shot_type : {"TWO_POINT"}]
    \cup
    [event_type : {"SHOT_MADE"}, period : {"Q4"}, game_clock_seconds : {480},
     player_id : {1}, second_player_id : {0}, team_id : {AwayTeam},
     shot_type : {"THREE_POINT"}]

\* ... substitutions of regulation and of overtime ...
OvertimeInputs ==
    { e \in [event_type : {"SUBSTITUTION"}, period : {"Q4", "OT1"},
             game_clock_seconds : {400}, player_id : {1, 2},
             second_player_id : {1, 2}, team_id : {HomeTeam},
             shot_type : {"NONE"}] :
        e.player_id # e.second_player_id }
    \cup
    [event_type : {"SUBSTITUTION"}, period : {"Q4"}, game_clock_seconds : {480},
     player_id : {2}, second_player_id : {1}, team_id : {HomeTeam},
     shot_type : {"NONE"}]

\* ... field goals of both categories, with and without a shooter ...
ShotInputs ==
    [event_type : ShotEvents, period : {"Q4"}, game_clock_seconds : {480},
     player_id : {1}, second_player_id : {0}, team_id : {HomeTeam},
     shot_type : {"TWO_POINT", "THREE_POINT"}]
    \cup
    [event_type : {"SHOT_MADE"}, period : {"Q4"}, game_clock_seconds : {480},
     player_id : {0}, second_player_id : {0}, team_id : {HomeTeam},
     shot_type : {"TWO_POINT"}]

\* ... free throws and shots of no category, beside a two-point basket ...
FreeThrowInputs ==
    [event_type : ShotEvents, period : {"Q4"}, game_clock_seconds : {480},
     player_id : {1}, second_player_id : {0}, team_id : {HomeTeam},
     shot_type : {"FREE_THROW", "NONE"}]
    \cup
    [event_type : {"SHOT_MADE"}, period : {"Q4"}, game_clock_seconds : {480},
     player_id : {1}, second_player_id : {0}, team_id : {HomeTeam},
     shot_type : {"TWO_POINT"}]

\* ... missed shots and rebounds of both teams, a later miss, and a rebound
\* naming no player ...
ReboundInputs ==
    [event_type : {"SHOT_MISSED"}, period : {"Q4"}, game_clock_seconds : {480},
     player_id : {1}, second_player_id : {0}, team_id : {HomeTeam, AwayTeam},
     shot_type : {"TWO_POINT"}]
    \cup
    [event_type : {"SHOT_MISSED"}, period : {"Q4"}, game_clock_seconds : {400},
     player_id : {1}, second_player_id : {0}, team_id : {HomeTeam},
     shot_type : {"TWO_POINT"}]
    \cup
    [event_type : {"REBOUND"}, period : {"Q4"}, game_clock_seconds : {480},
     player_id : {1}, second_player_id : {0}, team_id : {HomeTeam, AwayTeam},
     shot_type : {"NONE"}]
    \cup
    [event_type : {"REBOUND"}, period : {"Q4"}, game_clock_seconds : {480},
     player_id : {0}, second_player_id : {0}, team_id : {HomeTeam},
     shot_type : {"NONE"}]

\* A request naming a team that does not play the game.
ForeignInputs ==
    [event_type : {"TIMEOUT"}, period : {"Q4"}, game_clock_seconds : {480},
     player_id : {0}, second_player_id : {0}, team_id : {"other"},
     shot_type : {"NONE"}]

\* ... the five counted kinds ...
CounterInputs ==
    [event_type : {"ASSIST"}, period : {"Q4"}, game_clock_seconds : {480},
     player_id : {1}, second_player_id : {2}, team_id : {HomeTeam},
     shot_type : {"NONE"}]
    \cup
    [event_type : {"STEAL", "BLOCK", "TURNOVER", "FOUL"},
     period : {"Q4"}, game_clock_seconds : {480},
     player_id : {1}, second_player_id : {0}, team_id : {HomeTeam},
     shot_type : {"NONE"}]

\* ... a foul beside a timeout naming a player, a foul naming none, a game
\* start and a request of a team outside the game ...
TimeoutInputs ==
    [event_type : {"FOUL", "TIMEOUT"},
     period : {"Q4"}, game_clock_seconds : {480},
     player_id : {1}, second_player_id : {0}, team_id : {HomeTeam},
     shot_type : {"NONE"}]
    \cup
    [event_type : {"FOUL", "GAME_START"}, period : {"Q4"},
     game_clock_seconds : {480},
     player_id : {0}, second_player_id : {0}, team_id : {HomeTeam},
     shot_type : {"NONE"}]
    \cup
    ForeignInputs

\* ... events naming a player that does not exist ...
DanglingInputs ==
    [event_type : {"SUBSTITUTION"}, period : {"Q4"}, game_clock_seconds : {400},
     player_id : {1}, second_player_id : {2} \cup MissingPlayers,
     team_id : {HomeTeam}, shot_type : {"NONE"}]
    \cup
    [event_type : {"FOUL"}, period : {"Q4"}, game_clock_seconds : {480},
     player_id : {1} \cup MissingPlayers, second_player_id : {0},
     team_id : {HomeTeam}, shot_type : {"NONE"}]

\* Substitutions with either role or both filled (the exiting and the entering
\* player may be the same one), followed by a game end or by a basket naming
\* no shooter ...
RoleInputs ==
    [event_type : {"SUBSTITUTION"}, period : {"Q4"}, game_clock_seconds : {480},
     player_id : {0, 1}, second_player_id : {1}, team_id : {HomeTeam},
     shot_type : {"NONE"}]
    \cup
    [event_type : {"SUBSTITUTION"}, period : {"Q4"}, game_clock_seconds : {400},
     player_id : {1}, second_player_id : {0, 1}, team_id : {HomeTeam},
     shot_type : {"NONE"}]
    \cup
    [event_type : {"GAME_END"}, period : {"Q4"}, game_clock_seconds : {400},
     player_id : {0}, second_player_id : {0}, team_id : {HomeTeam},
     shot_type : {"NONE"}]
    \cup
    [event_type : {"SHOT_MADE"}, period : {"Q4"}, game_clock_seconds : {400},
     player_id : {0}, second_player_id : {0}, team_id : {HomeTeam},
     shot_type : {"TWO_POINT"}]

\* ... and shots of two periods, free throws among them.
PeriodInputs ==
    [event_type : {"SHOT_MADE"}, period : {"Q1"}, game_clock_seconds : {480},
     player_id : {1}, second_player_id : {0}, team_id : {HomeTeam},
     shot_type : {"THREE_POINT"}]
    \cup
    [event_type : {"SHOT_MADE"}, period : {"Q2"}, game_clock_seconds : {480},
     player_id : {1}, second_player_id : {0}, team_id : {HomeTeam},
     shot_type : {"FREE_THROW"}]
    \cup
    [event_type : {"SHOT_MISSED"}, period : {"Q2"}, game_clock_seconds : {480},
     player_id : {1}, second_player_id : {0}, team_id : {HomeTeam},
     shot_type : {"THREE_POINT"}]
    \cup
    [event_type : {"SHOT_MADE"}, period : {"Q1"}, game_clock_seconds : {480},
     player_id : {0}, second_player_id : {0}, team_id : {HomeTeam},
     shot_type : {"THREE_POINT"}]

Families ==
    {LineupInputs, OvertimeInputs, ShotInputs, FreeThrowInputs, ReboundInputs,
     CounterInputs, TimeoutInputs, DanglingInputs, RoleInputs, PeriodInputs}

EventInputs == UNION Families

\* The bodies all belong to one family.
OneFamily(bodies) == \E F \in Families : bodies \subseteq F

PatchFields ==
    {"event_type", "period", "game_clock_seconds", "player_id",
     "second_player_id", "team_id", "shot_type"}

(* ------------------------------------------------------------------ *)
(* stats.py: helpers                                                    *)
(* ------------------------------------------------------------------ *)

Bit(b) == IF b THEN 1 ELSE 0

Max2(a, b) == IF a >= b THEN a ELSE b

\* A zeroed PlayerGameStats row (column defaults of models.py).
ZeroPlayerStats(player, team) ==
    [player_id |-> player, team_id |-> team, points |-> 0,
     field_goals_made |-> 0, field_goals_attempted |-> 0,
     two_point_made |-> 0, two_point_attempted |-> 0,
     three_point_made |-> 0, three_point_attempted |-> 0,
     free_throws_made |-> 0, free_throws_attempted |-> 0,
     rebounds_offensive |-> 0, rebounds_defensive |-> 0, rebounds_total |-> 0,
     assists |-> 0, steals |-> 0, blocks |-> 0, turnovers |-> 0, fouls |-> 0,
     plus_minus |-> 0, seconds_played |-> 0, is_on_court |-> FALSE,
     last_sub_clock |-> -1, last_sub_period |-> "NONE",
     points_by_period |-> <<>>]

\* A zeroed TeamGameStats row.
ZeroTeamStats(team) ==
    [team_id |-> team, points |-> 0,
     field_goals_made |-> 0, field_goals_attempted |-> 0,
     two_point_made |-> 0, two_point_attempted |-> 0,
     three_point_made |-> 0, three_point_attempted |-> 0,
     free_throws_made |-> 0, free_throws_attempted |-> 0,
     rebounds_offensive |-> 0, rebounds_defensive |-> 0, rebounds_total |-> 0,
     assists |-> 0, steals |-> 0, blocks |-> 0, turnovers |-> 0, fouls |-> 0,
     timeouts |-> 0,
     points_by_period |-> <<>>, fg_made_by_period |-> <<>>,
     fg_attempted_by_period |-> <<>>]

\* The aggregate rows of the game: the rows of each table in the order of
\* their insertion (of their primary key).
NoStats == [p |-> <<>>, t |-> <<>>]

\* query(PlayerGameStats).filter(game_id, player_id).first(): whether a row
\* matches, and the position of the first one.
HasPlayerStats(p, player) == \E i \in DOMAIN p : p[i].player_id = player

PlayerStatsAt(p, player) ==
    CHOOSE i \in DOMAIN p :
       /\ p[i].player_id = player
       /\ \A j \in DOMAIN p : p[j].player_id = player => i <= j

HasTeamStats(t, team) == \E i \in DOMAIN t : t[i].team_id = team

TeamStatsAt(t, team) ==
    CHOOSE i \in DOMAIN t :
       /\ t[i].team_id = team
       /\ \A j \in DOMAIN t : t[j].team_id = team => i <= j

\* Variant of GetOrCreatePlayerStats: a row is inserted without looking for
\* an existing one.
GetOrCreatePlayerStatsAlwaysInserting(p, player, team) ==
    Append(p, ZeroPlayerStats(player, team))

\* Variant of GetOrCreatePlayerStats: an existing row takes the team of the
\* event that fetches it.
GetOrCreatePlayerStatsRetagging(p, player, team) ==
    IF HasPlayerStats(p, player)
    THEN [p EXCEPT ![PlayerStatsAt(p, player)].team_id = team]
    ELSE Append(p, ZeroPlayerStats(player, team))

\* get_or_create_player_stats: the existing row is kept (team_id included),
\* a missing one is inserted zeroed with the event's team.
GetOrCreatePlayerStats(p, player, team) ==
    IF HasPlayerStats(p, player) THEN p
    ELSE Append(p, ZeroPlayerStats(player, team))

\* Variant of GetOrCreateTeamStats: the inserted row replaces the table's rows.
GetOrCreateTeamStatsReplacing(t, team) ==
    IF HasTeamStats(t, team) THEN t
    ELSE <<ZeroTeamStats(team)>>

\* get_or_create_team_stats
GetOrCreateTeamStats(t, team) ==
    IF HasTeamStats(t, team) THEN t
    ELSE Append(t, ZeroTeamStats(team))

\* Variant of IncrementJsonPeriod: the amount replaces the key's value.
IncrementJsonPeriodOverwriting(json, period, amount) ==
    IF \E i \in DOMAIN json : json[i].key = period
    THEN SubSeq([i \in DOMAIN json |->
                   IF json[i].key = period
                   THEN [key |-> period, value |-> amount]
                   ELSE json[i]],
                1, Len(json))
    ELSE Append(json, [key |-> period, value |-> amount])

\* _increment_json_period. The column holds json.dumps of a dict: its keys
\* stay in insertion order, so the text is modelled as the sequence of
\* (key, value) pairs in that order.
IncrementJsonPeriod(json, period, amount) ==
    IF \E i \in DOMAIN json : json[i].key = period
    THEN SubSeq([i \in DOMAIN json |->
                   IF json[i].key = period
                   THEN [key |-> period, value |-> json[i].value + amount]
                   ELSE json[i]],
                1, Len(json))
    ELSE Append(json, [key |-> period, value |-> amount])

\* Variant of PointsForShot: a free throw falls through to the default.
PointsForShotNoFreeThrow(shot_type) ==
    IF shot_type = "THREE_POINT" THEN 3 ELSE 2

PointsForShot(shot_type) ==
    IF shot_type = "THREE_POINT" THEN 3
    ELSE IF shot_type = "FREE_THROW" THEN 1
    ELSE 2

\* Variant of UpdatePlusMinus: the team is not checked against the game's.
UpdatePlusMinusUnguarded(p, team, score_delta) ==
    IF score_delta = 0 THEN p
    ELSE LET opposing == IF team = HomeTeam THEN AwayTeam ELSE HomeTeam IN
         SubSeq([x \in DOMAIN p |->
                   IF p[x].is_on_court /\ p[x].team_id = team
                   THEN [p[x] EXCEPT !.plus_minus = @ + score_delta]
                   ELSE IF p[x].is_on_court /\ p[x].team_id = opposing
                   THEN [p[x] EXCEPT !.plus_minus = @ - score_delta]
                   ELSE p[x]],
                1, Len(p))

\* Variant of UpdatePlusMinus: the other team's players are not charged.
UpdatePlusMinusScorersOnly(p, team, score_delta) ==
    IF score_delta = 0 THEN p
    ELSE IF team \notin {HomeTeam, AwayTeam} THEN p
    ELSE SubSeq([x \in DOMAIN p |->
                   IF p[x].is_on_court /\ p[x].team_id = team
                   THEN [p[x] EXCEPT !.plus_minus = @ + score_delta]
                   ELSE p[x]],
                1, Len(p))

\* _update_plus_minus over the player rows p of the game. The result is the
\* table again: a sequence of rows, in the same order.
UpdatePlusMinus(p, team, score_delta) ==
    IF score_delta = 0 THEN p
    ELSE IF team \notin {HomeTeam, AwayTeam} THEN p
    ELSE LET opposing == IF team = HomeTeam THEN AwayTeam ELSE HomeTeam IN
         SubSeq([x \in DOMAIN p |->
                   IF p[x].is_on_court /\ p[x].team_id = team
                   THEN [p[x] EXCEPT !.plus_minus = @ + score_delta]
                   ELSE IF p[x].is_on_court /\ p[x].team_id = opposing
                   THEN [p[x] EXCEPT !.plus_minus = @ - score_delta]
                   ELSE p[x]],
                1, Len(p))

\* PERIOD_ORDER.get(period, 0)
PeriodOrder(period) ==
    CASE period = "Q1" -> 0
      [] period = "Q2" -> 1
      [] period = "Q3" -> 2
      [] period = "Q4" -> 3
      [] period = "OT1" -> 4
      [] period = "OT2" -> 5
      [] OTHER -> 0

PeriodLength == 480

\* Variant of CalcElapsedSeconds: the periods in between are counted, whichever
\* of the two readings is the later one.
CalcElapsedSecondsCountingBetween(from_period, from_clock, to_period, to_clock) ==
    LET from_idx == PeriodOrder(from_period)
        to_idx == PeriodOrder(to_period)
        between == IF to_idx > from_idx THEN to_idx - from_idx - 1
                   ELSE from_idx - to_idx - 1
    IN IF from_idx = to_idx
       THEN Max2(0, from_clock - to_clock)
       ELSE Max2(0, from_clock + between * PeriodLength
                     + (PeriodLength - to_clock))

\* Variant of CalcElapsedSeconds: the result is not floored at zero.
CalcElapsedSecondsUnfloored(from_period, from_clock, to_period, to_clock) ==
    LET from_idx == PeriodOrder(from_period)
        to_idx == PeriodOrder(to_period)
    IN IF from_idx = to_idx
       THEN from_clock - to_clock
       ELSE from_clock + (to_idx - from_idx - 1) * PeriodLength
              + (PeriodLength - to_clock)

\* Variant of CalcElapsedSeconds: across periods the time that remained in the
\* starting period is left out.
CalcElapsedSecondsDroppingStart(from_period, from_clock, to_period, to_clock) ==
    LET from_idx == PeriodOrder(from_period)
        to_idx == PeriodOrder(to_period)
    IN IF from_idx = to_idx
       THEN Max2(0, from_clock - to_clock)
       ELSE Max2(0, (to_idx - from_idx - 1) * PeriodLength
                     + (PeriodLength - to_clock))

\* _calc_elapsed_seconds
CalcElapsedSeconds(from_period, from_clock, to_period, to_clock) ==
    LET from_idx == PeriodOrder(from_period)
        to_idx == PeriodOrder(to_period)
    IN IF from_idx = to_idx
       THEN Max2(0, from_clock - to_clock)
       ELSE Max2(0, from_clock + (to_idx - from_idx - 1) * PeriodLength
                     + (PeriodLength - to_clock))

\* Variant of ApplyShotStats: a free throw is also counted as a field-goal
\* attempt.
ApplyShotStatsFreeThrowAsFieldGoal(row, shot_type, made, pts, period) ==
    LET counted ==
          IF shot_type = "FREE_THROW"
          THEN [row EXCEPT !.free_throws_attempted = @ + 1,
                           !.free_throws_made = @ + Bit(made),
                           !.field_goals_attempted = @ + 1]
          ELSE IF shot_type = "THREE_POINT"
          THEN [row EXCEPT !.field_goals_attempted = @ + 1,
                           !.three_point_attempted = @ + 1,
                           !.three_point_made = @ + Bit(made),
                           !.field_goals_made = @ + Bit(made)]
          ELSE [row EXCEPT !.field_goals_attempted = @ + 1,
                           !.two_point_attempted = @ + 1,
                           !.two_point_made = @ + Bit(made),
                           !.field_goals_made = @ + Bit(made)]
    IN IF made
       THEN [counted EXCEPT !.points = @ + pts,
                            !.points_by_period =
                                IncrementJsonPeriod(@, period, pts)]
       ELSE counted

\* Variant of ApplyShotStats: a made three-point shot is entered in the
\* two-point made counter.
ApplyShotStatsThreesMadeAsTwos(row, shot_type, made, pts, period) ==
    LET counted ==
          IF shot_type = "FREE_THROW"
          THEN [row EXCEPT !.free_throws_attempted = @ + 1,
                           !.free_throws_made = @ + Bit(made)]
          ELSE IF shot_type = "THREE_POINT"
          THEN [row EXCEPT !.field_goals_attempted = @ + 1,
                           !.three_point_attempted = @ + 1,
                           !.two_point_made = @ + Bit(made),
                           !.field_goals_made = @ + Bit(made)]
          ELSE [row EXCEPT !.field_goals_attempted = @ + 1,
                           !.two_point_attempted = @ + 1,
                           !.two_point_made = @ + Bit(made),
                           !.field_goals_made = @ + Bit(made)]
    IN IF made
       THEN [counted EXCEPT !.points = @ + pts,
                            !.points_by_period =
                                IncrementJsonPeriod(@, period, pts)]
       ELSE counted

\* _apply_shot_stats on a player or team row.
ApplyShotStats(row, shot_type, made, pts, period) ==
    LET counted ==
          IF shot_type = "FREE_THROW"
          THEN [row EXCEPT !.free_throws_attempted = @ + 1,
                             !.free_throws_made = @ + Bit(made)]
          ELSE IF shot_type = "THREE_POINT"
          THEN [row EXCEPT !.field_goals_attempted = @ + 1,
                             !.three_point_attempted = @ + 1,
                             !.three_point_made = @ + Bit(made),
                             !.field_goals_made = @ + Bit(made)]
          ELSE [row EXCEPT !.field_goals_attempted = @ + 1,
                             !.two_point_attempted = @ + 1,
                             !.two_point_made = @ + Bit(made),
                             !.field_goals_made = @ + Bit(made)]
    IN IF made
       THEN [counted EXCEPT !.points = @ + pts,
                            !.points_by_period =
                                IncrementJsonPeriod(@, period, pts)]
       ELSE counted

CounterFields == {"ASSIST", "STEAL", "BLOCK", "TURNOVER", "FOUL"}

\* Variant of BumpCounter: every counted kind is counted as a foul.
BumpCounterAsFoul(row, kind) == [row EXCEPT !.fouls = @ + 1]

\* setattr(stats, field, getattr(stats, field) + 1) with field = _COUNTER_FIELDS[kind]
BumpCounter(row, kind) ==
    CASE kind = "ASSIST" -> [row EXCEPT !.assists = @ + 1]
      [] kind = "STEAL" -> [row EXCEPT !.steals = @ + 1]
      [] kind = "BLOCK" -> [row EXCEPT !.blocks = @ + 1]
      [] kind = "TURNOVER" -> [row EXCEPT !.turnovers = @ + 1]
      [] kind = "FOUL" -> [row EXCEPT !.fouls = @ + 1]

IncrementCounter(st, e) ==
    LET p1 == IF e.player_id # 0
              THEN LET p0 == GetOrCreatePlayerStats(st.p, e.player_id, e.team_id)
                   IN [p0 EXCEPT ![PlayerStatsAt(p0, e.player_id)] = BumpCounter(@, e.event_type)]
              ELSE st.p
        t0 == GetOrCreateTeamStats(st.t, e.team_id)
    IN [p |-> p1, t |-> [t0 EXCEPT ![TeamStatsAt(t0, e.team_id)] = BumpCounter(@, e.event_type)]]

(* ------------------------------------------------------------------ *)
(* stats.py: update_stats_for_event                                     *)
(* ------------------------------------------------------------------ *)

\* Variant of ApplyShot: free throws enter the field-goal breakdowns.
ApplyShotFreeThrowsInBreakdown(st, e) ==
    LET made == e.event_type = "SHOT_MADE"
        pts == IF made THEN PointsForShot(e.shot_type) ELSE 0
        p1 == IF e.player_id # 0
              THEN LET p0 == GetOrCreatePlayerStats(st.p, e.player_id, e.team_id)
                   IN [p0 EXCEPT ![PlayerStatsAt(p0, e.player_id)] =
                          ApplyShotStats(@, e.shot_type, made, pts, e.period)]
              ELSE st.p
        t0 == GetOrCreateTeamStats(st.t, e.team_id)
        t1 == [t0 EXCEPT ![TeamStatsAt(t0, e.team_id)] =
                  ApplyShotStats(@, e.shot_type, made, pts, e.period)]
        t2 == [t1 EXCEPT ![TeamStatsAt(t1, e.team_id)] =
                  [@ EXCEPT !.fg_attempted_by_period =
                                IncrementJsonPeriod(@, e.period, 1),
                            !.fg_made_by_period =
                                IF made THEN IncrementJsonPeriod(@, e.period, 1)
                                ELSE @]]
    IN [p |-> IF made THEN UpdatePlusMinus(p1, e.team_id, pts) ELSE p1,
        t |-> t2]

\* SHOT_MADE / SHOT_MISSED branch.
ApplyShot(st, e) ==
    LET made == e.event_type = "SHOT_MADE"
        pts == IF made THEN PointsForShot(e.shot_type) ELSE 0
        p1 == IF e.player_id # 0
              THEN LET p0 == GetOrCreatePlayerStats(st.p, e.player_id, e.team_id)
                   IN [p0 EXCEPT ![PlayerStatsAt(p0, e.player_id)] =
                          ApplyShotStats(@, e.shot_type, made, pts, e.period)]
              ELSE st.p
        t0 == GetOrCreateTeamStats(st.t, e.team_id)
        t1 == [t0 EXCEPT ![TeamStatsAt(t0, e.team_id)] =
                  ApplyShotStats(@, e.shot_type, made, pts, e.period)]
        t2 == IF e.shot_type # "FREE_THROW"
              THEN [t1 EXCEPT ![TeamStatsAt(t1, e.team_id)] =
                      [@ EXCEPT !.fg_attempted_by_period =
                                    IncrementJsonPeriod(@, e.period, 1),
                                !.fg_made_by_period =
                                    IF made THEN IncrementJsonPeriod(@, e.period, 1)
                                    ELSE @]]
              ELSE t1
    IN [p |-> IF made THEN UpdatePlusMinus(p1, e.team_id, pts) ELSE p1,
        t |-> t2]

\* Variant of IsOffensive: the query does not filter on the id.
IsOffensiveAmongAllMisses(e, store) ==
    LET misses == {m \in store : m.event_type = "SHOT_MISSED"}
    IN /\ misses # {}
       /\ LET prev_miss == CHOOSE m \in misses : \A o \in misses : o.id <= m.id
          IN prev_miss.team_id = e.team_id

\* The REBOUND branch's query: the stored SHOT_MISSED events of the game with
\* a smaller id; the rebound is offensive iff the one of greatest id among
\* them is of the rebounder's team.
IsOffensive(e, store) ==
    LET misses == {m \in store : m.event_type = "SHOT_MISSED" /\ m.id < e.id}
    IN /\ misses # {}
       /\ LET prev_miss == CHOOSE m \in misses : \A o \in misses : o.id <= m.id
          IN prev_miss.team_id = e.team_id

\* Variant of BumpRebound: a defensive rebound is not added to the total.
BumpReboundDefensiveUntotalled(row, is_offensive) ==
    IF is_offensive
    THEN [row EXCEPT !.rebounds_offensive = @ + 1, !.rebounds_total = @ + 1]
    ELSE [row EXCEPT !.rebounds_defensive = @ + 1]

BumpRebound(row, is_offensive) ==
    IF is_offensive
    THEN [row EXCEPT !.rebounds_offensive = @ + 1, !.rebounds_total = @ + 1]
    ELSE [row EXCEPT !.rebounds_defensive = @ + 1, !.rebounds_total = @ + 1]

\* Variant of ApplyRebound: a player row is fetched or created whether or not
\* the event names a player.
ApplyReboundCreatingRow(st, e, store) ==
    LET is_offensive == IsOffensive(e, store)
        p0 == GetOrCreatePlayerStats(st.p, e.player_id, e.team_id)
        p1 == IF e.player_id # 0
              THEN [p0 EXCEPT ![PlayerStatsAt(p0, e.player_id)] = BumpRebound(@, is_offensive)]
              ELSE p0
        t0 == GetOrCreateTeamStats(st.t, e.team_id)
    IN [p |-> p1, t |-> [t0 EXCEPT ![TeamStatsAt(t0, e.team_id)] = BumpRebound(@, is_offensive)]]

\* REBOUND branch.
ApplyRebound(st, e, store) ==
    LET is_offensive == IsOffensive(e, store)
        p1 == IF e.player_id # 0
              THEN LET p0 == GetOrCreatePlayerStats(st.p, e.player_id, e.team_id)
                   IN [p0 EXCEPT ![PlayerStatsAt(p0, e.player_id)] = BumpRebound(@, is_offensive)]
              ELSE st.p
        t0 == GetOrCreateTeamStats(st.t, e.team_id)
    IN [p |-> p1, t |-> [t0 EXCEPT ![TeamStatsAt(t0, e.team_id)] = BumpRebound(@, is_offensive)]]

\* Variant of ApplyTimeout: a named player gets a row.
ApplyTimeoutNamingPlayer(st, e) ==
    LET t0 == GetOrCreateTeamStats(st.t, e.team_id)
    IN [p |-> IF e.player_id # 0
              THEN GetOrCreatePlayerStats(st.p, e.player_id, e.team_id)
              ELSE st.p,
        t |-> [t0 EXCEPT ![TeamStatsAt(t0, e.team_id)].timeouts = @ + 1]]

\* TIMEOUT branch.
ApplyTimeout(st, e) ==
    LET t0 == GetOrCreateTeamStats(st.t, e.team_id)
    IN [p |-> st.p, t |-> [t0 EXCEPT ![TeamStatsAt(t0, e.team_id)].timeouts = @ + 1]]

\* Variant of SubExit: the exiting player's flag is left as it was.
SubExitKeepingFlag(row, e) ==
    LET played ==
          IF row.is_on_court /\ row.last_sub_clock # -1
          THEN CalcElapsedSeconds(row.last_sub_period, row.last_sub_clock,
                                  e.period, e.game_clock_seconds)
          ELSE 0
    IN [row EXCEPT !.seconds_played = @ + played,
                   !.last_sub_clock = e.game_clock_seconds,
                   !.last_sub_period = e.period]

\* Variant of SubExit: the elapsed time is credited whether or not the player
\* is on court.
SubExitAlwaysCrediting(row, e) ==
    [row EXCEPT !.seconds_played =
                    @ + CalcElapsedSeconds(row.last_sub_period, row.last_sub_clock,
                                           e.period, e.game_clock_seconds),
                !.is_on_court = FALSE,
                !.last_sub_clock = e.game_clock_seconds,
                !.last_sub_period = e.period]

\* SUBSTITUTION, exiting side (player_id).
SubExit(row, e) ==
    LET played ==
          IF row.is_on_court /\ row.last_sub_clock # -1
          THEN CalcElapsedSeconds(row.last_sub_period, row.last_sub_clock,
                                  e.period, e.game_clock_seconds)
          ELSE 0
    IN [row EXCEPT !.seconds_played = @ + played,
                   !.is_on_court = FALSE,
                   !.last_sub_clock = e.game_clock_seconds,
                   !.last_sub_period = e.period]

\* Variant of SubEnter: a player entered while on court is credited the time
\* since the mark.
SubEnterCreditingTime(row, e) ==
    LET played ==
          IF row.is_on_court /\ row.last_sub_clock # -1
          THEN CalcElapsedSeconds(row.last_sub_period, row.last_sub_clock,
                                  e.period, e.game_clock_seconds)
          ELSE 0
    IN [row EXCEPT !.seconds_played = @ + played,
                   !.is_on_court = TRUE,
                   !.last_sub_clock = e.game_clock_seconds,
                   !.last_sub_period = e.period]

\* SUBSTITUTION, entering side (second_player_id).
SubEnter(row, e) ==
    [row EXCEPT !.is_on_court = TRUE,
                !.last_sub_clock = e.game_clock_seconds,
                !.last_sub_period = e.period]

\* The SUBSTITUTION branch up to the end of its exiting side.
ApplySubstitutionExit(st, e) ==
    IF e.player_id # 0
    THEN LET p0 == GetOrCreatePlayerStats(st.p, e.player_id, e.team_id)
         IN [p0 EXCEPT ![PlayerStatsAt(p0, e.player_id)] = SubExit(@, e)]
    ELSE st.p

\* Variant of ApplySubstitution: the team's row is fetched as well.
ApplySubstitutionFetchingTeam(st, e) ==
    LET p1 == ApplySubstitutionExit(st, e)
        p2 == IF e.second_player_id # 0
              THEN LET p0 == GetOrCreatePlayerStats(p1, e.second_player_id, e.team_id)
                   IN [p0 EXCEPT ![PlayerStatsAt(p0, e.second_player_id)] = SubEnter(@, e)]
              ELSE p1
    IN [p |-> p2, t |-> GetOrCreateTeamStats(st.t, e.team_id)]

\* SUBSTITUTION branch.
ApplySubstitution(st, e) ==
    LET p1 == ApplySubstitutionExit(st, e)
        p2 == IF e.second_player_id # 0
              THEN LET p0 == GetOrCreatePlayerStats(p1, e.second_player_id, e.team_id)
                   IN [p0 EXCEPT ![PlayerStatsAt(p0, e.second_player_id)] = SubEnter(@, e)]
              ELSE p1
    IN [p |-> p2, t |-> st.t]

\* Variant of FallThrough: the end of the game takes every player off court.
FallThroughClosingLineup(st, e) ==
    [p |-> SubSeq([x \in DOMAIN st.p |-> [st.p[x] EXCEPT !.is_on_court = FALSE]],
                  1, Len(st.p)),
     t |-> st.t]

\* No branch of the if / elif chain names the event's kind (GAME_START,
\* GAME_END): the call goes on to the final flush with nothing changed.
FallThrough(st, e) == st

\* The dispatcher. store is the game's stored events at the time of the call.
UpdateStatsForEvent(st, e, store) ==
    IF e.event_type \in ShotEvents THEN ApplyShot(st, e)
    ELSE IF e.event_type = "REBOUND" THEN ApplyRebound(st, e, store)
    ELSE IF e.event_type \in CounterFields THEN IncrementCounter(st, e)
    ELSE IF e.event_type = "TIMEOUT" THEN ApplyTimeout(st, e)
    ELSE IF e.event_type = "SUBSTITUTION" THEN ApplySubstitution(st, e)
    ELSE FallThrough(st, e)

\* The players whose aggregate row the call fetches or creates.
NamedPlayers(e) ==
    IF e.event_type = "SUBSTITUTION"
    THEN {e.player_id, e.second_player_id} \ {0}
    ELSE IF e.event_type \in ShotEvents \cup {"REBOUND"} \cup CounterFields
    THEN {e.player_id} \ {0}
    ELSE {}

\* The call raises: get_or_create_player_stats inserts a row whose player_id
\* references no row of players, and the flush is refused (IntegrityError,
\* foreign keys are enforced). Such a player never has a row to fetch. The
\* dispatcher has no raise of its own: an event of a kind none of its
\* branches names reaches the final flush and returns.
UpdateRaises(e) == NamedPlayers(e) \ Players # {}

\* What the call had done to the session when it raised: the exiting side of
\* a substitution whose entering player is the missing one, else nothing.
PartialUpdate(st, e) ==
    IF e.event_type = "SUBSTITUTION" /\ e.player_id \in Players
    THEN [p |-> ApplySubstitutionExit(st, e), t |-> st.t]
    ELSE st

(* ------------------------------------------------------------------ *)
(* Query orderings                                                      *)
(* ------------------------------------------------------------------ *)

\* ORDER BY game_events.period. The column is Enum(Period) on SQLite: a
\* VARCHAR holding the member's name, compared as text, so the six values
\* sort OT1 < OT2 < Q1 < Q2 < Q3 < Q4.
SqlPeriodRank(period) ==
    CASE period = "OT1" -> 0
      [] period = "OT2" -> 1
      [] period = "Q1" -> 2
      [] period = "Q2" -> 3
      [] period = "Q3" -> 4
      [] period = "Q4" -> 5

\* order_by(period, game_clock_seconds.desc()): a strictly before b.
TimelineBefore(a, b) ==
    \/ SqlPeriodRank(a.period) < SqlPeriodRank(b.period)
    \/ /\ a.period = b.period
       /\ a.game_clock_seconds > b.game_clock_seconds

\* order_by(period, game_clock_seconds.desc(), id): a strictly before b.
RebuildBefore(a, b) ==
    \/ TimelineBefore(a, b)
    \/ /\ a.period = b.period
       /\ a.game_clock_seconds = b.game_clock_seconds
       /\ a.id < b.id

\* The rows of S in the order of rebuild_game_stats's query.
RECURSIVE RebuildOrder(_)
RebuildOrder(S) ==
    IF S = {} THEN <<>>
    ELSE LET first == CHOOSE x \in S : \A y \in S \ {x} : RebuildBefore(x, y)
         IN <<first>> \o RebuildOrder(S \ {first})

\* Every arrangement of the rows of S.
RECURSIVE Arrangements(_)
Arrangements(S) ==
    IF S = {} THEN {<<>>}
    ELSE UNION { { <<x>> \o rest : rest \in Arrangements(S \ {x}) } : x \in S }

\* The results get_timeline's query can return: the ORDER BY fixes the order
\* of rows that differ in (period, clock) and leaves rows that share both in
\* whatever order the database produces them.
TimelineResults(S) ==
    { s \in Arrangements(S) :
        \A i, j \in DOMAIN s : i < j => ~TimelineBefore(s[j], s[i]) }

(* ------------------------------------------------------------------ *)
(* stats.py: rebuild_game_stats                                          *)
(* ------------------------------------------------------------------ *)

\* Variant of Replay: the lookup of a replayed event sees only the events
\* replayed so far.
RECURSIVE ReplaySeeingReplayedOnly(_, _, _)
ReplaySeeingReplayedOnly(st, seq, store) ==
    IF seq = <<>> THEN st
    ELSE LET rest == {Tail(seq)[i] : i \in DOMAIN Tail(seq)}
         IN ReplaySeeingReplayedOnly(
               UpdateStatsForEvent(st, Head(seq), store \ rest), Tail(seq), store)

\* for event in events: update_stats_for_event(db, event, game)
RECURSIVE Replay(_, _, _)
Replay(st, seq, store) ==
    IF seq = <<>> THEN st
    ELSE Replay(UpdateStatsForEvent(st, Head(seq), store), Tail(seq), store)

ReplayRaises(seq) == \E i \in DOMAIN seq : UpdateRaises(seq[i])

\* The events of seq replayed before the first call that raises.
ReplayedBeforeRaise(seq) ==
    LET i == CHOOSE i \in DOMAIN seq :
                /\ UpdateRaises(seq[i])
                /\ \A j \in 1..(i - 1) : ~UpdateRaises(seq[j])
    IN SubSeq(seq, 1, i - 1)

\* The session's aggregates when the replay of seq is interrupted by the first
\* call that raises.
RECURSIVE ReplayUntilRaise(_, _, _)
ReplayUntilRaise(st, seq, store) ==
    IF seq = <<>> THEN st
    ELSE IF UpdateRaises(Head(seq)) THEN PartialUpdate(st, Head(seq))
    ELSE ReplayUntilRaise(UpdateStatsForEvent(st, Head(seq), store),
                          Tail(seq), store)

\* Variant of Wipe: the delete statements are left out.
WipeKeepingRows(st) == st

\* The wipe: both aggregate tables lose every row of the game.
Wipe(st) == NoStats

RebuildGameStats(st, store) == Replay(Wipe(st), RebuildOrder(store), store)

\* Variant of RebuildEarlyCommits: the wipe is committed on its own.
RebuildEarlyCommitsAfterWipe(st, store) == <<Wipe(st)>>

\* The aggregates rebuild_game_stats commits before its last statement, the
\* commit: none. The flush after the wipe and the flushes of
\* update_stats_for_event write inside the open transaction.
RebuildEarlyCommits(st, store) == <<>>

(* ------------------------------------------------------------------ *)
(* Request handlers                                                     *)
(* ------------------------------------------------------------------ *)

\* EventCreate.validate_event_fields
ValidateEventFields(e) ==
    /\ e.team_id # ""
    /\ IF e.event_type \in ShotEvents
       THEN e.shot_type # "NONE"
       ELSE e.shot_type = "NONE"
    /\ e.event_type \in {"SUBSTITUTION", "ASSIST"}
          => e.player_id # 0 /\ e.second_player_id # 0
    /\ e.event_type \in {"FOUL", "STEAL", "BLOCK", "TURNOVER", "REBOUND"}
          => e.player_id # 0
    /\ e.game_clock_seconds >= 0

\* The id SQLite gives the next row of game_events (an INTEGER PRIMARY KEY
\* without AUTOINCREMENT): one more than the greatest id in the table.
NewId ==
    IF events = {} THEN 1
    ELSE (CHOOSE e \in events : \A o \in events : o.id <= e.id).id + 1

WithId(body, id) ==
    [id |-> id, event_type |-> body.event_type, period |-> body.period,
     game_clock_seconds |-> body.game_clock_seconds,
     player_id |-> body.player_id, second_player_id |-> body.second_player_id,
     team_id |-> body.team_id, shot_type |-> body.shot_type]

Body(e) ==
    [event_type |-> e.event_type, period |-> e.period,
     game_clock_seconds |-> e.game_clock_seconds,
     player_id |-> e.player_id, second_player_id |-> e.second_player_id,
     team_id |-> e.team_id, shot_type |-> e.shot_type]

Ids(seq) == [i \in DOMAIN seq |-> seq[i].id]

\* What the client receives: the handler, the status code, the ids of the
\* events returned; and what ended the handler early: "" if nothing did,
\* "HTTPException", or the statement the database refused (IntegrityError).
Response(op, status, body) ==
    [op |-> op, status |-> status, body |-> body,
     error |-> IF status = 200 THEN "" ELSE "HTTPException"]

\* An exception no handler catches: FastAPI answers 500 Internal Server Error.
Unhandled(op, error) ==
    [op |-> op, status |-> 500, body |-> <<>>, error |-> error]

\* Variant of IsParticipant: every team is accepted.
IsParticipantAnyTeam(team) == TRUE

\* team_id in (game.home_team_id, game.away_team_id)
IsParticipant(team) == team \in {HomeTeam, AwayTeam}

\* The database as one transaction sees it.
Database(store, st, history) ==
    [events |-> store, stats |-> st, applied |-> history]

\* Variant of Rollback: what the session had written stays.
RollbackKeepingSession(committed, session) == session

\* get_db closes the session of a handler that raised before its commit: the
\* transaction is rolled back, the tables are as the last commit left them.
Rollback(committed, session) == committed

\* The flush of a game_events row is refused: its player_id references no row
\* of players (second_player_id carries no foreign key).
EventFlushRaises(e) == e.player_id \in MissingPlayers

\* Variant of Aborted: the flushed game_events rows stay, the aggregates of the
\* session are lost.
AbortedKeepingEvents(op, statement, session) ==
    /\ events' = session.events
    /\ stats' = stats
    /\ applied' = applied
    /\ resp' = Unhandled(op, statement)
    /\ visible' = <<>>

\* The handler raised IntegrityError on `statement` while the session held
\* `session`.
Aborted(op, statement, session) ==
    LET kept == Rollback(Database(events, stats, applied), session)
    IN /\ events' = kept.events
       /\ stats' = kept.stats
       /\ applied' = kept.applied
       /\ resp' = Unhandled(op, statement)
       /\ visible' = <<>>

\* POST /games/{game_id}/events
CreateEvent(body) ==
    IF ~ValidateEventFields(body) \/ ~IsParticipant(body.team_id)
    THEN /\ resp' = Response("create_event", 422, <<>>)
         /\ UNCHANGED <<events, stats, applied>>
         /\ visible' = <<>>
    ELSE /\ NewId <= MaxId
         /\ OneFamily({Body(e) : e \in events} \cup {body})
         /\ LET db_event == WithId(body, NewId)
                store == events \cup {db_event}
            IN IF EventFlushRaises(db_event)
               THEN Aborted("create_event", "INSERT INTO game_events",
                            Database(events, stats, applied))
               ELSE IF UpdateRaises(db_event)
               THEN Aborted("create_event", "INSERT INTO player_game_stats",
                            Database(store, PartialUpdate(stats, db_event),
                                     applied))
               ELSE /\ events' = store
                    /\ stats' = UpdateStatsForEvent(stats, db_event, store)
                    /\ applied' = Append(applied, db_event)
                    /\ resp' = Response("create_event", 200, <<db_event.id>>)
                    /\ visible' = <<>>

\* What delete_event, patch_event and rebuild_stats end with: rebuild_game_stats
\* over the events `store` of the handler's session, then the response.
Rebuilt(op, store, body) ==
    LET order == RebuildOrder(store)
    IN IF ReplayRaises(order)
       THEN Aborted(op, "INSERT INTO player_game_stats",
                    Database(store,
                             ReplayUntilRaise(Wipe(stats), order, store),
                             ReplayedBeforeRaise(order)))
       ELSE /\ events' = store
            /\ stats' = RebuildGameStats(stats, store)
            /\ applied' = order
            /\ resp' = Response(op, 200, body)
            /\ visible' = RebuildEarlyCommits(stats, store)

\* DELETE /games/{game_id}/events/{event_id}
DeleteEvent(event_id) ==
    IF \A e \in events : e.id # event_id
    THEN /\ resp' = Response("delete_event", 404, <<>>)
         /\ UNCHANGED <<events, stats, applied>>
         /\ visible' = <<>>
    ELSE Rebuilt("delete_event", {e \in events : e.id # event_id},
                 <<event_id>>)

\* The values a PATCH body gives one field.
PatchValues(field) == {e[field] : e \in EventInputs}

\* PATCH /games/{game_id}/events/{event_id}, the body setting one field to a new
\* value (a PATCH that changes nothing has the effect of RebuildStats).
PatchEvent(event_id, field, value) ==
    IF \A e \in events : e.id # event_id
    THEN /\ resp' = Response("patch_event", 404, <<>>)
         /\ UNCHANGED <<events, stats, applied>>
         /\ visible' = <<>>
    ELSE IF field = "team_id" /\ ~IsParticipant(value)
    THEN /\ resp' = Response("patch_event", 422, <<>>)
         /\ UNCHANGED <<events, stats, applied>>
         /\ visible' = <<>>
    ELSE LET event == CHOOSE e \in events : e.id = event_id
             patched == [event EXCEPT ![field] = value]
             store == (events \ {event}) \cup {patched}
         IN /\ patched # event
            /\ OneFamily({Body(e) : e \in store})
            /\ IF EventFlushRaises(patched)
               THEN Aborted("patch_event", "UPDATE game_events",
                            Database(events, stats, applied))
               ELSE Rebuilt("patch_event", store, <<event_id>>)

\* POST /games/{game_id}/stats/rebuild
RebuildStats ==
    /\ Rebuilt("rebuild_stats", events, <<>>)

\* GET /games/{game_id}/timeline
GetTimeline ==
    /\ \E result \in TimelineResults(events) :
          resp' = Response("get_timeline", 200, Ids(result))
    /\ UNCHANGED <<events, stats, applied>>
    /\ visible' = <<>>

Init ==
    /\ events = {}
    /\ stats = NoStats
    /\ applied = <<>>
    /\ resp = Response("none", 200, <<>>)
    /\ visible = <<>>

Next ==
    \/ \E body \in EventInputs : CreateEvent(body)
    \/ \E event_id \in 1..MaxId : DeleteEvent(event_id)
    \/ \E event_id \in 1..MaxId, field \in PatchFields :
          \E value \in PatchValues(field) : PatchEvent(event_id, field, value)
    \/ RebuildStats
    \/ GetTimeline

Spec == Init /\ [][Next]_vars

(* ------------------------------------------------------------------ *)
(* Several games                                                        *)
(*                                                                      *)
(* The same tables holding the rows of two games. Under GamesSpec the   *)
(* variables are the whole tables: events holds the game_events rows of *)
(* every game, each with its game_id; stats.p and stats.t hold the      *)
(* aggregate rows of every game, each as a pair of its game_id and the  *)
(* row; applied is the history of each game; resp names the game the    *)
(* request addressed.                                                   *)
(* ------------------------------------------------------------------ *)

\* Existing rows of the games table, both between HomeTeam and AwayTeam.
Games == {1, 2}

\* A game id no row of the games table has.
MissingGames == {3}

\* Request bodies submitted to either game: a missed and a made shot, a rebound
\* and a substitution that puts the shooter on court.
GameInputs ==
    [event_type : {"SHOT_MISSED", "SHOT_MADE"}, period : {"Q4"},
     game_clock_seconds : {480}, player_id : {1}, second_player_id : {0},
     team_id : {HomeTeam}, shot_type : {"TWO_POINT"}]
    \cup
    [event_type : {"REBOUND"}, period : {"Q4"}, game_clock_seconds : {480},
     player_id : {1}, second_player_id : {0}, team_id : {HomeTeam},
     shot_type : {"NONE"}]
    \cup
    [event_type : {"SUBSTITUTION"}, period : {"Q4"}, game_clock_seconds : {480},
     player_id : {2}, second_player_id : {1}, team_id : {HomeTeam},
     shot_type : {"NONE"}]

\* Variant of EventsOfGame: the filter on game_id is left out.
EventsOfEveryGame(all, game) == all

\* query(GameEvent).filter(GameEvent.game_id == game_id)
EventsOfGame(all, game) == {e \in all : e.game_id = game}

\* query(PlayerGameStats / TeamGameStats).filter(game_id == game_id): the rows
\* of the game, in table order.
RECURSIVE RowsOfGame(_, _)
RowsOfGame(table, game) ==
    IF table = <<>> THEN <<>>
    ELSE (IF Head(table).game_id = game THEN <<Head(table).row>> ELSE <<>>)
            \o RowsOfGame(Tail(table), game)

\* The aggregate rows one request on `game` reads and writes.
StatsOfGame(tables, game) ==
    [p |-> RowsOfGame(tables.p, game), t |-> RowsOfGame(tables.t, game)]

\* The rows of the other games, in table order.
RECURSIVE RowsOfOtherGames(_, _)
RowsOfOtherGames(table, game) ==
    IF table = <<>> THEN <<>>
    ELSE (IF Head(table).game_id # game THEN <<Head(table)>> ELSE <<>>)
            \o RowsOfOtherGames(Tail(table), game)

\* rows, each with the game_id its insert gave it.
RECURSIVE OfGame(_, _)
OfGame(rows, game) ==
    IF rows = <<>> THEN <<>>
    ELSE <<[game_id |-> game, row |-> Head(rows)]>> \o OfGame(Tail(rows), game)

\* The tables once the session's rows of `game` are written: the statements
\* of the engine delete, update and insert rows of that game_id only. (Every
\* query filters by game_id: the order of rows of different games is
\* immaterial.)
WithStatsOfGame(tables, game, st) ==
    [p |-> RowsOfOtherGames(tables.p, game) \o OfGame(st.p, game),
     t |-> RowsOfOtherGames(tables.t, game) \o OfGame(st.t, game)]

\* GameEvent(game_id=game_id, **event.model_dump()) with the id of its flush.
GameEventRow(game, body, id) ==
    [game_id |-> game, id |-> id, event_type |-> body.event_type,
     period |-> body.period, game_clock_seconds |-> body.game_clock_seconds,
     player_id |-> body.player_id, second_player_id |-> body.second_player_id,
     team_id |-> body.team_id, shot_type |-> body.shot_type]

\* The answer to a request on `game`.
GameResponse(game, answer) == [game |-> game, answer |-> answer]

\* The request ends without a commit: an HTTPException, or an exception no
\* handler catches (the session is rolled back).
Refused(game, answer) ==
    /\ resp' = GameResponse(game, answer)
    /\ UNCHANGED <<events, stats, applied>>
    /\ visible' = <<>>

\* POST /games/{game_id}/events
CreateEventIn(game, body) ==
    IF game \notin Games
    THEN Refused(game, Response("create_event", 404, <<>>))
    ELSE IF ~ValidateEventFields(body) \/ ~IsParticipant(body.team_id)
    THEN Refused(game, Response("create_event", 422, <<>>))
    ELSE /\ NewId <= MaxId
         /\ LET db_event == GameEventRow(game, body, NewId)
                store == events \cup {db_event}
            IN IF EventFlushRaises(db_event)
               THEN Refused(game, Unhandled("create_event",
                                            "INSERT INTO game_events"))
               ELSE IF UpdateRaises(db_event)
               THEN Refused(game, Unhandled("create_event",
                                            "INSERT INTO player_game_stats"))
               ELSE /\ events' = store
                    /\ stats' = WithStatsOfGame(stats, game,
                                    UpdateStatsForEvent(StatsOfGame(stats, game),
                                                        db_event,
                                                        EventsOfGame(store, game)))
                    /\ applied' = [applied EXCEPT ![game] = Append(@, db_event)]
                    /\ resp' = GameResponse(game,
                                    Response("create_event", 200, <<db_event.id>>))
                    /\ visible' = <<>>

\* rebuild_game_stats(db, game_id) over the session's game_events rows `store`,
\* then the response.
RebuiltIn(op, game, store, body) ==
    LET own == EventsOfGame(store, game)
        order == RebuildOrder(own)
    IN IF ReplayRaises(order)
       THEN Refused(game, Unhandled(op, "INSERT INTO player_game_stats"))
       ELSE /\ events' = store
            /\ stats' = WithStatsOfGame(stats, game,
                            RebuildGameStats(StatsOfGame(stats, game), own))
            /\ applied' = [applied EXCEPT ![game] = order]
            /\ resp' = GameResponse(game, Response(op, 200, body))
            /\ visible' = RebuildEarlyCommits(StatsOfGame(stats, game), own)

\* DELETE /games/{game_id}/events/{event_id}
DeleteEventIn(game, event_id) ==
    IF game \notin Games
    THEN Refused(game, Response("delete_event", 404, <<>>))
    ELSE IF \A e \in EventsOfGame(events, game) : e.id # event_id
    THEN Refused(game, Response("delete_event", 404, <<>>))
    ELSE LET event == CHOOSE e \in EventsOfGame(events, game) : e.id = event_id
         IN RebuiltIn("delete_event", game, events \ {event}, <<event_id>>)

\* PATCH /games/{game_id}/events/{event_id}, the body setting one field.
PatchEventIn(game, event_id, field, value) ==
    IF game \notin Games
    THEN Refused(game, Response("patch_event", 404, <<>>))
    ELSE IF \A e \in EventsOfGame(events, game) : e.id # event_id
    THEN Refused(game, Response("patch_event", 404, <<>>))
    ELSE IF field = "team_id" /\ ~IsParticipant(value)
    THEN Refused(game, Response("patch_event", 422, <<>>))
    ELSE LET event == CHOOSE e \in EventsOfGame(events, game) : e.id = event_id
             patched == [event EXCEPT ![field] = value]
         IN /\ patched # event
            /\ Body(patched) \in GameInputs
            /\ IF EventFlushRaises(patched)
               THEN Refused(game, Unhandled("patch_event", "UPDATE game_events"))
               ELSE RebuiltIn("patch_event", game,
                              (events \ {event}) \cup {patched}, <<event_id>>)

\* POST /games/{game_id}/stats/rebuild
RebuildStatsIn(game) ==
    IF game \notin Games
    THEN Refused(game, Response("rebuild_stats", 404, <<>>))
    ELSE RebuiltIn("rebuild_stats", game, events, <<>>)

GamesInit ==
    /\ events = {}
    /\ stats = NoStats
    /\ applied = [game \in Games |-> <<>>]
    /\ resp = GameResponse(0, Response("none", 200, <<>>))
    /\ visible = <<>>

GamesNext ==
    \/ \E game \in Games \cup MissingGames, body \in GameInputs :
          CreateEventIn(game, body)
    \/ \E game \in Games \cup MissingGames, event_id \in 1..MaxId :
          DeleteEventIn(game, event_id)
    \/ \E game \in Games \cup MissingGames, event_id \in 1..MaxId :
          \E field \in PatchFields :
             \E value \in {e[field] : e \in GameInputs} :
                PatchEventIn(game, event_id, field, value)
    \/ \E game \in Games \cup MissingGames : RebuildStatsIn(game)

GamesSpec == GamesInit /\ [][GamesNext]_vars

(* ------------------------------------------------------------------ *)
(* Vocabulary of the properties                                         *)
(* ------------------------------------------------------------------ *)

\* applied lists the events update_stats_for_event has been called with since
\* the last wipe, in call order. StatsAfter(k) is the aggregate state the
\* engine held after the k-th of these calls; the last one is the stored state.
StatsAfter(k) ==
    IF k = Len(applied) THEN stats
    ELSE Replay(NoStats, SubSeq(applied, 1, k), events)

\* The stored aggregates are the fold of update_stats_for_event over applied.
AppliedExplainsStats == stats = Replay(NoStats, applied, events)

Succeeded(op) == resp.op = op /\ resp.status = 200

\* The rows of the two aggregate tables, whatever their order of insertion.
Rows(st) ==
    [p |-> {st.p[i] : i \in DOMAIN st.p}, t |-> {st.t[i] : i \in DOMAIN st.t}]

PlayerRow(st, player) ==
    IF HasPlayerStats(st.p, player) THEN st.p[PlayerStatsAt(st.p, player)]
    ELSE ZeroPlayerStats(player, "")

TeamRow(st, team) ==
    IF HasTeamStats(st.t, team) THEN st.t[TeamStatsAt(st.t, team)]
    ELSE ZeroTeamStats(team)

\* Game order of the periods and of the events: ascending period
\* Q1 < Q2 < Q3 < Q4 < OT1 < OT2, then descending clock, then ascending id.
GamePeriodRank(period) ==
    CASE period = "Q1" -> 1
      [] period = "Q2" -> 2
      [] period = "Q3" -> 3
      [] period = "Q4" -> 4
      [] period = "OT1" -> 5
      [] period = "OT2" -> 6

CanonicalBefore(a, b) ==
    \/ GamePeriodRank(a.period) < GamePeriodRank(b.period)
    \/ /\ a.period = b.period
       /\ \/ a.game_clock_seconds > b.game_clock_seconds
          \/ /\ a.game_clock_seconds = b.game_clock_seconds
             /\ a.id < b.id

RECURSIVE CanonicalOrder(_)
CanonicalOrder(S) ==
    IF S = {} THEN <<>>
    ELSE LET first == CHOOSE x \in S : \A y \in S \ {x} : CanonicalBefore(x, y)
         IN <<first>> \o CanonicalOrder(S \ {first})

(* ------------------------------------------------------------------ *)
(* C1 .. C5: append, rebuild, replay order                              *)
(* ------------------------------------------------------------------ *)

\* C1 (as claimed): after every successful create_event, whatever the order of
\* submission, the incrementally maintained aggregates are identical to the
\* ones rebuild_game_stats produces from the stored events.
AppendRebuildEquivalence ==
    Succeeded("create_event")
        => Rows(stats) = Rows(RebuildGameStats(stats, events))

\* C2: a rebuild that directly follows a rebuild (the one of rebuild_stats,
\* delete_event or patch_event) leaves every aggregate as it was: same rows,
\* same value in every field.
ReplayIdempotence ==
    [][ ( /\ resp.status = 200
          /\ resp.op \in {"rebuild_stats", "delete_event", "patch_event"}
          /\ resp'.op = "rebuild_stats" )
        => stats' = stats ]_vars

\* C2 witness: a rebuild has run over a log of two events and left aggregates.
ReplayIdempotenceWitness ==
    /\ Succeeded("rebuild_stats")
    /\ Cardinality(events) >= 2
    /\ stats.t # <<>>
    /\ stats.p # <<>>

\* C3 (as claimed): after delete_event or patch_event the aggregates are what a
\* from-scratch replay of the corrected event list in canonical (game) order
\* produces.
CorrectionEqualsCanonicalReplay ==
    (Succeeded("delete_event") \/ Succeeded("patch_event"))
        => Rows(stats) = Rows(Replay(NoStats, CanonicalOrder(events), events))

\* C4 (as claimed): rebuild_game_stats applies the stored events, each once, in
\* canonical order: ascending period in game order, descending clock,
\* ascending id.
RebuildAppliesCanonicalOrder ==
    Succeeded("rebuild_stats") => applied = CanonicalOrder(events)

Decomposed(row) ==
    /\ row.rebounds_total = row.rebounds_offensive + row.rebounds_defensive
    /\ row.field_goals_attempted =
          row.two_point_attempted + row.three_point_attempted

\* C6: after every applied event and after every rebuild, every player row and
\* every team row has rebounds_total = rebounds_offensive + rebounds_defensive
\* and field_goals_attempted = two_point_attempted + three_point_attempted.
CounterDecomposition ==
    \A k \in 0..Len(applied) :
       LET st == StatsAfter(k)
       IN /\ \A x \in DOMAIN st.p : Decomposed(st.p[x])
          /\ \A x \in DOMAIN st.t : Decomposed(st.t[x])

\* C6 witness: a team row counts a field-goal attempt and a rebound.
CounterDecompositionWitness ==
    \E x \in DOMAIN stats.t :
       /\ stats.t[x].field_goals_attempted >= 1
       /\ stats.t[x].rebounds_total >= 1

Naming(e, player) ==
    /\ e.event_type = "SUBSTITUTION"
    /\ player \in {e.player_id, e.second_player_id}

OnCourt(st, player) == PlayerRow(st, player).is_on_court

\* The last substitution of seq naming the player names them as the entering
\* player.
LastSubstitutionEnters(seq, player) ==
    \E i \in DOMAIN seq :
       /\ Naming(seq[i], player)
       /\ seq[i].second_player_id = player
       /\ \A j \in DOMAIN seq : j > i => ~Naming(seq[j], player)

\* C7: a player is on court iff the most recently applied substitution naming
\* them entered them, and an applied event that is no substitution naming the
\* player leaves the player's flag as it was.
LineupConservation ==
    \A player \in Players :
       /\ OnCourt(stats, player) <=> LastSubstitutionEnters(applied, player)
       /\ \A k \in 1..Len(applied) :
             ~Naming(applied[k], player)
                => OnCourt(StatsAfter(k), player) = OnCourt(StatsAfter(k - 1), player)

\* C7 witness: a player entered by a substitution is still on court after a
\* later event of another kind.
LineupConservationWitness ==
    /\ Len(applied) >= 2
    /\ applied[Len(applied)].event_type = "SHOT_MISSED"
    /\ \E player \in Players : OnCourt(stats, player)

SecondsPlayed(st, player) == PlayerRow(st, player).seconds_played

ClockReadings == {0, 1, 399, 400, 480, 481, 960}

\* _calc_elapsed_seconds over every pair of (period, clock) readings, the
\* later one first included.
ElapsedNeverNegative ==
    \A fp \in Periods, tp \in Periods :
       \A fc \in ClockReadings, tc \in ClockReadings :
          CalcElapsedSeconds(fp, fc, tp, tc) >= 0

\* C8: no applied event lowers a player's seconds_played, only a substitution
\* naming the player as exiting changes it, and _calc_elapsed_seconds is >= 0
\* for every pair of period / clock readings.
ElapsedTimeNonNegative ==
    /\ \A k \in 1..Len(applied), player \in Players :
          LET was == SecondsPlayed(StatsAfter(k - 1), player)
              now == SecondsPlayed(StatsAfter(k), player)
          IN /\ now >= was
             /\ now # was => /\ applied[k].event_type = "SUBSTITUTION"
                             /\ applied[k].player_id = player
    /\ ElapsedNeverNegative

\* C8 witness: a player on court is taken off by a substitution recorded
\* chronologically before their entry mark.
ElapsedTimeNonNegativeWitness ==
    \E k \in 1..Len(applied) :
       LET e == applied[k]
           row == PlayerRow(StatsAfter(k - 1), e.player_id)
       IN /\ e.event_type = "SUBSTITUTION"
          /\ e.player_id # 0
          /\ row.is_on_court
          /\ \/ PeriodOrder(e.period) < PeriodOrder(row.last_sub_period)
             \/ /\ e.period = row.last_sub_period
                /\ e.game_clock_seconds > row.last_sub_clock

\* The rows a shot event touches, before and after it.
ShotRows(k) ==
    LET e == applied[k]
    IN { [was |-> TeamRow(StatsAfter(k - 1), e.team_id),
          now |-> TeamRow(StatsAfter(k), e.team_id)] }
       \cup
       IF e.player_id # 0
       THEN { [was |-> PlayerRow(StatsAfter(k - 1), e.player_id),
               now |-> PlayerRow(StatsAfter(k), e.player_id)] }
       ELSE {}

\* C9: a made shot adds 1 point for a free throw, 3 for a three-point shot and
\* 2 for a two-point shot or a shot of no category, to the shooter's row (if a
\* player is named) and to the team's row; a missed shot adds no point and
\* changes no made counter.
ShotPointValue ==
    \A k \in 1..Len(applied) :
       LET e == applied[k]
           worth == IF e.event_type # "SHOT_MADE" THEN 0
                    ELSE IF e.shot_type = "FREE_THROW" THEN 1
                    ELSE IF e.shot_type = "THREE_POINT" THEN 3
                    ELSE 2
       IN e.event_type \in ShotEvents =>
             \A r \in ShotRows(k) :
                /\ r.now.points = r.was.points + worth
                /\ e.event_type = "SHOT_MISSED" =>
                      /\ r.now.field_goals_made = r.was.field_goals_made
                      /\ r.now.two_point_made = r.was.two_point_made
                      /\ r.now.three_point_made = r.was.three_point_made
                      /\ r.now.free_throws_made = r.was.free_throws_made

\* C9 witness: a made shot of no category by a named player has been applied.
ShotPointValueWitness ==
    \E k \in 1..Len(applied) :
       /\ applied[k].event_type = "SHOT_MADE"
       /\ applied[k].shot_type = "NONE"
       /\ applied[k].player_id # 0
       /\ PlayerRow(stats, applied[k].player_id).points >= 2

\* The growth of the eight shooting counters from row was to row now.
ShotGrowth(r) ==
    [fga |-> r.now.field_goals_attempted - r.was.field_goals_attempted,
     fgm |-> r.now.field_goals_made - r.was.field_goals_made,
     p2a |-> r.now.two_point_attempted - r.was.two_point_attempted,
     p2m |-> r.now.two_point_made - r.was.two_point_made,
     p3a |-> r.now.three_point_attempted - r.was.three_point_attempted,
     p3m |-> r.now.three_point_made - r.was.three_point_made,
     fta |-> r.now.free_throws_attempted - r.was.free_throws_attempted,
     ftm |-> r.now.free_throws_made - r.was.free_throws_made]

\* C10: a free throw grows free_throws_attempted by 1 (and free_throws_made by
\* 1 when made) and no field-goal, two-point or three-point counter; any other
\* shot grows field_goals_attempted and its own two- or three-point attempt
\* counter by 1, and when made field_goals_made and the matching made counter
\* by 1; nothing else among the shooting counters changes.
ShotBucketing ==
    \A k \in 1..Len(applied) :
       LET e == applied[k]
           m == Bit(e.event_type = "SHOT_MADE")
           expected ==
              IF e.shot_type = "FREE_THROW"
              THEN [fga |-> 0, fgm |-> 0, p2a |-> 0, p2m |-> 0,
                    p3a |-> 0, p3m |-> 0, fta |-> 1, ftm |-> m]
              ELSE IF e.shot_type = "THREE_POINT"
              THEN [fga |-> 1, fgm |-> m, p2a |-> 0, p2m |-> 0,
                    p3a |-> 1, p3m |-> m, fta |-> 0, ftm |-> 0]
              ELSE [fga |-> 1, fgm |-> m, p2a |-> 1, p2m |-> m,
                    p3a |-> 0, p3m |-> 0, fta |-> 0, ftm |-> 0]
       IN e.event_type \in ShotEvents =>
             \A r \in ShotRows(k) : ShotGrowth(r) = expected

\* C10 witness: a made free throw and another shot have both been applied.
ShotBucketingWitness ==
    \E x \in DOMAIN stats.t :
       /\ stats.t[x].free_throws_made >= 1
       /\ stats.t[x].field_goals_attempted >= 1

(* ------------------------------------------------------------------ *)
(* C11 .. C15: the branches of the dispatcher                           *)
(* ------------------------------------------------------------------ *)

\* The rows an applied event may touch: its team's and, if it names a primary
\* player, that player's, before and after the event.
TouchedRows(k) == ShotRows(k)

OtherTeam(team) == IF team = HomeTeam THEN AwayTeam ELSE HomeTeam

\* C12: a made shot worth p by a team of the game adds p to the plus_minus of
\* every player row on court with that team, subtracts p from every player row
\* on court with the game's other team, and leaves the plus_minus of every
\* other player as it was; no other event changes any plus_minus.
PlusMinusDistribution ==
    \A k \in 1..Len(applied), player \in Players :
       LET e == applied[k]
           was == PlayerRow(StatsAfter(k - 1), player)
           now == PlayerRow(StatsAfter(k), player)
           p == IF e.shot_type = "THREE_POINT" THEN 3
                ELSE IF e.shot_type = "FREE_THROW" THEN 1 ELSE 2
           share == IF ~was.is_on_court THEN 0
                    ELSE IF was.team_id = e.team_id THEN p
                    ELSE IF was.team_id = OtherTeam(e.team_id) THEN 0 - p
                    ELSE 0
       IN IF e.event_type = "SHOT_MADE" /\ e.team_id \in {HomeTeam, AwayTeam}
          THEN now.plus_minus = was.plus_minus + share
          ELSE now.plus_minus = was.plus_minus

\* C12 witness: a player on court has been charged a basket of the other team.
PlusMinusDistributionWitness ==
    \E player \in Players :
       /\ PlayerRow(stats, player).is_on_court
       /\ PlayerRow(stats, player).plus_minus < 0

\* Seconds of game played when the clock of `period` reads `clock`.
GameTime(period, clock) ==
    (GamePeriodRank(period) - 1) * PeriodLength + (PeriodLength - clock)

\* C13: the exiting side of an applied substitution naming a primary player:
\* if the player's row is on court with a mark, seconds_played grows by the
\* game time elapsed from the mark to the event (0 if the event is not later),
\* else it is unchanged; is_on_court becomes false and the mark becomes the
\* event's (period, clock). Unless the event enters the same player, this is
\* the player's row after the event.
LineupExit ==
    \A k \in 1..Len(applied) :
       LET e == applied[k]
           before == StatsAfter(k - 1)
           was == PlayerRow(before, e.player_id)
           exited == PlayerRow([p |-> ApplySubstitutionExit(before, e),
                                t |-> before.t], e.player_id)
           elapsed == IF was.is_on_court /\ was.last_sub_clock # -1
                      THEN Max2(0, GameTime(e.period, e.game_clock_seconds)
                                   - GameTime(was.last_sub_period,
                                              was.last_sub_clock))
                      ELSE 0
       IN (e.event_type = "SUBSTITUTION" /\ e.player_id # 0) =>
             /\ exited.seconds_played = was.seconds_played + elapsed
             /\ exited.is_on_court = FALSE
             /\ exited.last_sub_clock = e.game_clock_seconds
             /\ exited.last_sub_period = e.period
             /\ e.second_player_id # e.player_id =>
                   PlayerRow(StatsAfter(k), e.player_id) = exited

\* C13 witness: a player who entered at 480 of a period has exited at 400 of
\* it and is credited 80 seconds.
LineupExitWitness ==
    \E k \in 1..Len(applied) :
       LET e == applied[k]
           was == PlayerRow(StatsAfter(k - 1), e.player_id)
           now == PlayerRow(StatsAfter(k), e.player_id)
       IN /\ e.event_type = "SUBSTITUTION"
          /\ e.player_id # 0
          /\ was.is_on_court
          /\ was.last_sub_period = e.period
          /\ was.last_sub_clock = 480
          /\ e.game_clock_seconds = 400
          /\ now.seconds_played = was.seconds_played + 80

\* The column a counted kind is counted in.
CounterColumn(kind) ==
    CASE kind = "ASSIST" -> "assists"
      [] kind = "STEAL" -> "steals"
      [] kind = "BLOCK" -> "blocks"
      [] kind = "TURNOVER" -> "turnovers"
      [] kind = "FOUL" -> "fouls"

\* The player's row, or the zeroed row a first event of team `team` inserts.
PlayerRowOr(st, player, team) ==
    IF HasPlayerStats(st.p, player) THEN PlayerRow(st, player)
    ELSE ZeroPlayerStats(player, team)

\* The tables of `now` are those of `was` with the rows of the keys in
\* `players` and `teams` set aside: no other row added, removed or changed.
OnlyRowsOf(was, now, players, teams) ==
    /\ {was.p[i] : i \in DOMAIN was.p} \ {r \in Rows(was).p : r.player_id \in players}
          = {now.p[i] : i \in DOMAIN now.p} \ {r \in Rows(now).p : r.player_id \in players}
    /\ {was.t[i] : i \in DOMAIN was.t} \ {r \in Rows(was).t : r.team_id \in teams}
          = {now.t[i] : i \in DOMAIN now.t} \ {r \in Rows(now).t : r.team_id \in teams}

\* C14: an applied assist, steal, block, turnover or foul adds 1 to the
\* matching column of the primary player's row (inserted zeroed if missing;
\* no player row is touched if no primary player is named) and of the team's
\* row, and changes no other column and no other row: the secondary
\* participant gets no row and no change.
CounterEventFrame ==
    \A k \in 1..Len(applied) :
       LET e == applied[k]
           was == StatsAfter(k - 1)
           now == StatsAfter(k)
           column == CounterColumn(e.event_type)
       IN e.event_type \in CounterFields =>
             /\ OnlyRowsOf(was, now, {e.player_id} \ {0}, {e.team_id})
             /\ e.player_id # 0 =>
                   PlayerRow(now, e.player_id)
                      = [PlayerRowOr(was, e.player_id, e.team_id)
                            EXCEPT ![column] = @ + 1]
             /\ TeamRow(now, e.team_id)
                   = [TeamRow(was, e.team_id) EXCEPT ![column] = @ + 1]
             /\ Len(now.p) = Len(was.p)
                   + Bit(e.player_id # 0 /\ ~HasPlayerStats(was.p, e.player_id))

\* C14 witness: an assist naming a secondary participant has been counted for
\* the passer and the team, and the secondary participant has no row.
CounterEventFrameWitness ==
    \E k \in 1..Len(applied) :
       LET e == applied[k]
       IN /\ e.event_type = "ASSIST"
          /\ e.second_player_id # 0
          /\ PlayerRow(stats, e.player_id).assists = 1
          /\ TeamRow(stats, e.team_id).assists = 1
          /\ ~HasPlayerStats(stats.p, e.second_player_id)

\* C15: an applied timeout adds 1 to the timeouts of its team's row (inserted
\* zeroed if missing), changes no other column of it and no other team row,
\* and leaves the player table as it was, whether or not it names a player.
TimeoutFrame ==
    \A k \in 1..Len(applied) :
       LET e == applied[k]
           was == StatsAfter(k - 1)
           now == StatsAfter(k)
       IN e.event_type = "TIMEOUT" =>
             /\ now.p = was.p
             /\ OnlyRowsOf(was, now, {}, {e.team_id})
             /\ TeamRow(now, e.team_id)
                   = [TeamRow(was, e.team_id) EXCEPT !.timeouts = @ + 1]

\* C15 witness: a timeout naming a player has been counted and no player has
\* a row.
TimeoutFrameWitness ==
    \E k \in 1..Len(applied) :
       /\ applied[k].event_type = "TIMEOUT"
       /\ applied[k].player_id # 0
       /\ TeamRow(stats, applied[k].team_id).timeouts = 1
       /\ stats.p = <<>>

(* ------------------------------------------------------------------ *)
(* C16 .. C20: dispatch, uniqueness, failures, team membership          *)
(* ------------------------------------------------------------------ *)

\* Events of a kind that is not a member of EventType.
UnrecognizedEvents ==
    [id : {NewId}, event_type : {"JUMP_BALL"}, period : {"Q4"},
     game_clock_seconds : {480}, player_id : {1}, second_player_id : {0},
     team_id : {HomeTeam}, shot_type : {"NONE"}]

\* C16 (as claimed): update_stats_for_event called with an event of a kind
\* outside the closed set fails (raises) instead of returning with every
\* aggregate as it was.
ExhaustiveDispatch ==
    \A e \in UnrecognizedEvents :
       \/ UpdateRaises(e)
       \/ UpdateStatsForEvent(stats, e, events) # stats

Unique(st) ==
    /\ \A i, j \in DOMAIN st.p : st.p[i].player_id = st.p[j].player_id => i = j
    /\ \A i, j \in DOMAIN st.t : st.t[i].team_id = st.t[j].team_id => i = j

\* get-or-create on the stored tables: the rows already there stay as they
\* are, the result holds exactly one row of the key, and a row that had to be
\* created is the zeroed row of the key.
GetOrCreateContract ==
    \A team \in {HomeTeam, AwayTeam} :
       /\ \A player \in Players :
             LET p == GetOrCreatePlayerStats(stats.p, player, team)
             IN /\ SubSeq(p, 1, Len(stats.p)) = stats.p
                /\ Cardinality({i \in DOMAIN p : p[i].player_id = player}) = 1
                /\ ~HasPlayerStats(stats.p, player)
                      => p = Append(stats.p, ZeroPlayerStats(player, team))
       /\ LET t == GetOrCreateTeamStats(stats.t, team)
          IN /\ SubSeq(t, 1, Len(stats.t)) = stats.t
             /\ Cardinality({i \in DOMAIN t : t[i].team_id = team}) = 1
             /\ ~HasTeamStats(stats.t, team)
                   => t = Append(stats.t, ZeroTeamStats(team))

\* C17: after every applied event, live or replayed by a rebuild, delete or
\* patch, the player table holds at most one row per player and the team table
\* at most one row per team; and get-or-create answers the existing row of a
\* key or inserts its zeroed row.
AggregateUniqueness ==
    /\ \A k \in 0..Len(applied) : Unique(StatsAfter(k))
    /\ GetOrCreateContract

\* C17 witness: two applied events name the same player and the same team, and
\* each has one row.
AggregateUniquenessWitness ==
    /\ Len(applied) >= 2
    /\ applied[1].player_id # 0
    /\ applied[1].player_id \in NamedPlayers(applied[2])
    /\ applied[1].team_id = applied[2].team_id
    /\ Len(stats.p) = 1
    /\ Len(stats.t) = 1

\* C18: a delete_event, patch_event or rebuild_stats request either succeeds
\* and leaves the aggregates of the complete replay of the events it leaves,
\* or fails and leaves the stored events and aggregates exactly as they were.
RebuildAllOrNothing ==
    [][ resp'.op \in {"delete_event", "patch_event", "rebuild_stats"} =>
           IF resp'.status = 200
           THEN stats' = Replay(NoStats, RebuildOrder(events'), events')
           ELSE events' = events /\ stats' = stats ]_vars

\* C18 witness: a patch_event failed in the middle of the replay, after an
\* event had been replayed, and events and aggregates are stored.
RebuildAllOrNothingWitness ==
    /\ resp.op = "patch_event"
    /\ resp.status = 500
    /\ resp.error = "INSERT INTO player_game_stats"
    /\ \E a, b \in events :
          /\ RebuildBefore(a, b)
          /\ a.event_type = "FOUL"
          /\ b.event_type = "SUBSTITUTION"
    /\ stats.p # <<>>
    /\ stats.t # <<>>

\* C19 (as claimed): a create_event that the database refuses because the
\* event references a player that does not exist (as player_id, or as the
\* entering player of a substitution) is answered with an error of its own,
\* not with the 500 of an exception nothing handles.
DanglingReferenceReported ==
    ( /\ resp.op = "create_event"
      /\ resp.error \in {"INSERT INTO game_events",
                         "INSERT INTO player_game_stats"} )
        => resp.status # 500

TeamsOfGame(store, st) ==
    /\ \A e \in store : e.team_id \in {HomeTeam, AwayTeam}
    /\ \A i \in DOMAIN st.t : st.t[i].team_id \in {HomeTeam, AwayTeam}

\* C20: a request answered 422 (create_event or patch_event naming a team that
\* does not play the game, among others) changes no stored event and no
\* aggregate, and after every request every stored event and every team row is
\* of the home or the away team.
TeamMembership ==
    [][ /\ resp'.status = 422 => (events' = events /\ stats' = stats)
        /\ TeamsOfGame(events', stats') ]_vars

\* C20 witness: a patch_event has been rejected while events and team rows are
\* stored.
TeamMembershipWitness ==
    /\ resp.op = "patch_event"
    /\ resp.status = 422
    /\ events # {}
    /\ stats.t # <<>>

(* ------------------------------------------------------------------ *)
(* C21 .. C30: the stored log, transactions, frames                     *)
(* ------------------------------------------------------------------ *)

\* C21 (as claimed): after any sequence of create_event, patch_event and
\* delete_event every stored event has a shot category iff it is a made or
\* missed shot, names both players if it is a substitution or an assist, names
\* a player if it is a foul, steal, block, turnover or rebound, and has a clock
\* of at least 0.
StoredEventsWellFormed ==
    \A e \in events :
       /\ (e.shot_type \in ShotTypes) <=> (e.event_type \in ShotEvents)
       /\ e.event_type \in {"SUBSTITUTION", "ASSIST"}
             => e.player_id >= 1 /\ e.second_player_id >= 1
       /\ e.event_type \in {"FOUL", "STEAL", "BLOCK", "TURNOVER", "REBOUND"}
             => e.player_id >= 1
       /\ e.game_clock_seconds >= 0

\* C22: in every committed state the aggregates hold the effects of exactly
\* the committed events: the events update_stats_for_event was applied to are
\* the stored events, each once, and the stored aggregates are the result of
\* these applications; a create_event whose aggregate update was refused has
\* stored no event.
AtomicAppend ==
    /\ {applied[i] : i \in DOMAIN applied} = events
    /\ Len(applied) = Cardinality(events)
    /\ stats = Replay(NoStats, applied, events)

\* C22 witness: a create_event was refused during its aggregate update, after
\* its event had been flushed, while an event and its aggregates are stored.
AtomicAppendWitness ==
    /\ resp.op = "create_event"
    /\ resp.status = 500
    /\ resp.error = "INSERT INTO player_game_stats"
    /\ events # {}
    /\ stats.p # <<>>

\* C23: the entering side of an applied substitution. A secondary player's row
\* (inserted zeroed if missing) is on court afterwards and marked with the
\* event's (period, clock), whatever it held; its seconds_played is the one
\* the exiting side left (the time elapsed since the mark if the same player
\* exits on court, else the former value: re-entering a player on court
\* discards the time since the mark). The exit is applied first. A role
\* naming no player touches no row, an exit alone leaves the player off
\* court, and no other row and no team row changes.
LineupEnter ==
    \A k \in 1..Len(applied) :
       LET e == applied[k]
           before == StatsAfter(k - 1)
           now == StatsAfter(k)
           exits == e.player_id
           enters == e.second_player_id
           was == PlayerRowOr(before, enters, e.team_id)
           credited ==
              IF exits = enters /\ was.is_on_court /\ was.last_sub_clock # -1
              THEN Max2(0, GameTime(e.period, e.game_clock_seconds)
                           - GameTime(was.last_sub_period, was.last_sub_clock))
              ELSE 0
       IN e.event_type = "SUBSTITUTION" =>
             /\ now.t = before.t
             /\ OnlyRowsOf(before, now, {exits, enters} \ {0}, {})
             /\ Len(now.p) = Len(before.p)
                   + Cardinality({q \in {exits, enters} \ {0} :
                                     ~HasPlayerStats(before.p, q)})
             /\ enters # 0 =>
                   PlayerRow(now, enters)
                      = [was EXCEPT !.is_on_court = TRUE,
                                    !.last_sub_clock = e.game_clock_seconds,
                                    !.last_sub_period = e.period,
                                    !.seconds_played = @ + credited]
             /\ (enters = 0 /\ exits # 0) => ~PlayerRow(now, exits).is_on_court

\* C23 witness: a player on court since 480 of a period has been entered again
\* at 400 of it by a substitution taking another player off: the mark has
\* moved and no second is credited.
LineupEnterWitness ==
    \E k \in 1..Len(applied) :
       LET e == applied[k]
           was == PlayerRow(StatsAfter(k - 1), e.second_player_id)
           now == PlayerRow(StatsAfter(k), e.second_player_id)
       IN /\ e.event_type = "SUBSTITUTION"
          /\ e.second_player_id # 0
          /\ e.player_id # e.second_player_id
          /\ was.is_on_court
          /\ was.last_sub_period = e.period
          /\ was.last_sub_clock = 480
          /\ e.game_clock_seconds = 400
          /\ now.is_on_court
          /\ now.last_sub_clock = 400
          /\ now.seconds_played = was.seconds_played

\* The periods strictly between two periods of the order Q1, Q2, Q3, Q4, OT1,
\* OT2.
PeriodsBetween(p1, p2) ==
    {q \in Periods :
        \/ GamePeriodRank(p1) < GamePeriodRank(q) /\ GamePeriodRank(q) < GamePeriodRank(p2)
        \/ GamePeriodRank(p2) < GamePeriodRank(q) /\ GamePeriodRank(q) < GamePeriodRank(p1)}

\* The elapsed time as C24 words it: the periods in between are counted.
ElapsedAsClaimed(p1, c1, p2, c2) ==
    IF p1 = p2 THEN Max2(0, c1 - c2)
    ELSE Max2(0, c1 + 480 * Cardinality(PeriodsBetween(p1, p2)) + (480 - c2))

\* The elapsed time with the difference of the periods' positions, less one,
\* in the place of the count: the count when p1 precedes p2, negative when p2
\* precedes p1.
ElapsedAsAmended(p1, c1, p2, c2) ==
    IF p1 = p2 THEN Max2(0, c1 - c2)
    ELSE Max2(0, c1 + 480 * (GamePeriodRank(p2) - GamePeriodRank(p1) - 1)
                  + (480 - c2))

\* The seconds an applied substitution credits the player it takes off, for
\* every one that finds the player on court with a mark: the mark, the
\* event's reading and the growth of seconds_played.
CreditedExits ==
    LET Exit(k) ==
           LET e == applied[k]
               was == PlayerRow(StatsAfter(k - 1), e.player_id)
               now == PlayerRow(StatsAfter(k), e.player_id)
           IN [credits |-> /\ e.event_type = "SUBSTITUTION"
                           /\ e.player_id # 0
                           /\ was.is_on_court
                           /\ was.last_sub_clock # -1,
               p1 |-> was.last_sub_period, c1 |-> was.last_sub_clock,
               p2 |-> e.period, c2 |-> e.game_clock_seconds,
               credited |-> now.seconds_played - was.seconds_played]
    IN { x \in {Exit(k) : k \in 1..Len(applied)} : x.credits }

\* C24 (as claimed): an exit at (p2, c2) of a player marked (p1, c1) is
\* credited max(0, c1 - c2) when p1 = p2 and otherwise max(0, c1 + 480 * (the
\* number of whole periods strictly between p1 and p2) + (480 - c2)).
PeriodClockCountingBetween ==
    \A x \in CreditedExits :
       x.credited = ElapsedAsClaimed(x.p1, x.c1, x.p2, x.c2)

\* _calc_elapsed_seconds agrees with the amended wording on every pair of
\* readings.
PeriodClockOnReadings ==
    \A p1 \in Periods, p2 \in Periods :
       \A c1 \in ClockReadings, c2 \in ClockReadings :
          CalcElapsedSeconds(p1, c1, p2, c2) = ElapsedAsAmended(p1, c1, p2, c2)

\* C24 (amended): an exit at (p2, c2) of a player marked (p1, c1) is credited
\* max(0, c1 - c2) when p1 = p2 and otherwise max(0, c1 + 480 * (index(p2) -
\* index(p1) - 1) + (480 - c2)), index being the position in Q1, Q2, Q3, Q4,
\* OT1, OT2; and _calc_elapsed_seconds returns this for every pair of readings.
PeriodClock ==
    /\ \A x \in CreditedExits :
          x.credited = ElapsedAsAmended(x.p1, x.c1, x.p2, x.c2)
    /\ PeriodClockOnReadings

\* C24 witness: a player marked at 480 of the fourth quarter has exited at 400
\* of the first overtime and is credited 480 + 80 seconds.
PeriodClockWitness ==
    \E x \in CreditedExits :
       /\ x.p1 = "Q4"
       /\ x.c1 = 480
       /\ x.p2 = "OT1"
       /\ x.c2 = 400
       /\ x.credited = 560

\* What a by-period column holds for each period (data.get(period, 0)).
ByPeriod(json) ==
    [q \in Periods |->
        IF \E i \in DOMAIN json : json[i].key = q
        THEN json[CHOOSE i \in DOMAIN json : json[i].key = q].value
        ELSE 0]

\* C25: an applied shot of period P changes the by-period columns at P only. A
\* made shot worth p adds p to points_by_period[P] of the shooter's row (if a
\* player is named) and of the team's row, a missed one adds nothing; the
\* team's fg_attempted_by_period[P] grows by 1 unless the shot is a free throw
\* and fg_made_by_period[P] by 1 if it is made and no free throw.
PeriodBreakdowns ==
    \A k \in 1..Len(applied) :
       LET e == applied[k]
           was == StatsAfter(k - 1)
           now == StatsAfter(k)
           made == e.event_type = "SHOT_MADE"
           field_goal == e.shot_type # "FREE_THROW"
           worth == IF ~made THEN 0
                    ELSE IF e.shot_type = "FREE_THROW" THEN 1
                    ELSE IF e.shot_type = "THREE_POINT" THEN 3
                    ELSE 2
           Grown(json, amount) == [ByPeriod(json) EXCEPT ![e.period] = @ + amount]
       IN e.event_type \in ShotEvents =>
             /\ e.player_id # 0 =>
                   ByPeriod(PlayerRow(now, e.player_id).points_by_period)
                      = Grown(PlayerRow(was, e.player_id).points_by_period, worth)
             /\ ByPeriod(TeamRow(now, e.team_id).points_by_period)
                   = Grown(TeamRow(was, e.team_id).points_by_period, worth)
             /\ ByPeriod(TeamRow(now, e.team_id).fg_attempted_by_period)
                   = Grown(TeamRow(was, e.team_id).fg_attempted_by_period,
                           Bit(field_goal))
             /\ ByPeriod(TeamRow(now, e.team_id).fg_made_by_period)
                   = Grown(TeamRow(was, e.team_id).fg_made_by_period,
                           Bit(field_goal /\ made))

\* C25 witness: a team has scored a three-point shot in one period and a free
\* throw in another: points in two periods, field goals in one.
PeriodBreakdownsWitness ==
    \E x \in DOMAIN stats.t :
       /\ ByPeriod(stats.t[x].points_by_period)["Q1"] = 3
       /\ ByPeriod(stats.t[x].points_by_period)["Q2"] = 1
       /\ ByPeriod(stats.t[x].fg_made_by_period)["Q1"] = 1
       /\ ByPeriod(stats.t[x].fg_attempted_by_period)["Q2"] = 0

\* C26: an applied game start or game end leaves both aggregate tables as they
\* were: no row created, no field changed, players on court still on court
\* with the seconds they had.
LifecycleEventsFrame ==
    \A k \in 1..Len(applied) :
       applied[k].event_type \in {"GAME_START", "GAME_END"}
          => StatsAfter(k) = StatsAfter(k - 1)

\* C26 witness: a game end has been applied while a player is on court.
LifecycleEventsFrameWitness ==
    \E k \in 1..Len(applied) :
       /\ applied[k].event_type = "GAME_END"
       /\ \E player \in Players : OnCourt(StatsAfter(k - 1), player)
       /\ \E player \in Players : OnCourt(StatsAfter(k), player)

\* C27: an applied shot or rebound naming no primary player creates no player
\* row and changes no column of a player row but plus_minus (and that one on
\* a made shot only); the row of the event's team counts the shot or the
\* rebound, and no other team row changes.
NoPrimaryParticipantFrame ==
    \A k \in 1..Len(applied) :
       LET e == applied[k]
           was == StatsAfter(k - 1)
           now == StatsAfter(k)
           team_was == TeamRow(was, e.team_id)
           team_now == TeamRow(now, e.team_id)
       IN (e.event_type \in ShotEvents \cup {"REBOUND"} /\ e.player_id = 0) =>
             /\ Len(now.p) = Len(was.p)
             /\ \A x \in DOMAIN was.p :
                   now.p[x] = [was.p[x] EXCEPT !.plus_minus = now.p[x].plus_minus]
             /\ e.event_type # "SHOT_MADE" => now.p = was.p
             /\ {r \in Rows(now).t : r.team_id # e.team_id}
                   = {r \in Rows(was).t : r.team_id # e.team_id}
             /\ Cardinality({x \in DOMAIN now.t : now.t[x].team_id = e.team_id}) = 1
             /\ IF e.event_type = "REBOUND"
                THEN team_now.rebounds_total = team_was.rebounds_total + 1
                ELSE team_now.field_goals_attempted + team_now.free_throws_attempted
                        = team_was.field_goals_attempted
                             + team_was.free_throws_attempted + 1

\* C27 witness: a basket naming no shooter has been counted for the team while
\* a player of the team is on court and has got its points as plus-minus.
NoPrimaryParticipantFrameWitness ==
    \E k \in 1..Len(applied) :
       /\ applied[k].event_type = "SHOT_MADE"
       /\ applied[k].player_id = 0
       /\ TeamRow(StatsAfter(k), applied[k].team_id).points = 2
       /\ \E player \in Players :
             /\ OnCourt(StatsAfter(k - 1), player)
             /\ PlayerRow(StatsAfter(k), player).plus_minus
                   = PlayerRow(StatsAfter(k - 1), player).plus_minus + 2
             /\ PlayerRow(StatsAfter(k), player).points = 0

\* Made three-point shots of a team that does not play the game, with and
\* without a shooter, as update_stats_for_event may be called with.
ForeignShots ==
    [id : {NewId}, event_type : {"SHOT_MADE"}, period : {"Q4"},
     game_clock_seconds : {400}, player_id : {0, 1}, second_player_id : {0},
     team_id : {"other"}, shot_type : {"THREE_POINT"}]

\* C28: update_stats_for_event called with a made shot of a team that is
\* neither the home nor the away team does not raise and leaves every
\* player's plus_minus as it was (_update_plus_minus returns the rows
\* unchanged), while the shot is counted: 3 points and a made three-point
\* field goal on the team's row and, if a shooter is named, on the shooter's.
PlusMinusGuard ==
    \A e \in ForeignShots :
       LET now == UpdateStatsForEvent(stats, e, events)
           counted(was, row) ==
              /\ row.points = was.points + 3
              /\ row.three_point_made = was.three_point_made + 1
              /\ row.field_goals_made = was.field_goals_made + 1
              /\ row.field_goals_attempted = was.field_goals_attempted + 1
       IN /\ ~UpdateRaises(e)
          /\ UpdatePlusMinus(stats.p, e.team_id, 3) = stats.p
          /\ \A player \in Players :
                PlayerRow(now, player).plus_minus = PlayerRow(stats, player).plus_minus
          /\ counted(TeamRow(stats, e.team_id), TeamRow(now, e.team_id))
          /\ e.player_id # 0 =>
                counted(PlayerRow(stats, e.player_id), PlayerRow(now, e.player_id))

\* C28 witness: a player of the home team is on court, and the shot of the
\* foreign team is counted on a row of that team.
PlusMinusGuardWitness ==
    /\ \E player \in Players :
          /\ OnCourt(stats, player)
          /\ PlayerRow(stats, player).team_id = HomeTeam
    /\ \E e \in ForeignShots :
          TeamRow(UpdateStatsForEvent(stats, e, events), "other").points = 3

\* The keys of the aggregate rows: the players and the teams that have one.
Keys(st) ==
    [p |-> {st.p[i].player_id : i \in DOMAIN st.p},
     t |-> {st.t[i].team_id : i \in DOMAIN st.t}]

\* Every key of `was` is a key of `now`, and no table of `now` is shorter.
KeysKept(was, now) ==
    /\ Keys(was).p \subseteq Keys(now).p
    /\ Keys(was).t \subseteq Keys(now).t
    /\ Len(was.p) <= Len(now.p)
    /\ Len(was.t) <= Len(now.t)

\* No call of update_stats_for_event since the last wipe removed a row.
AppliedEventsKeepKeys ==
    \A k \in 1..Len(applied) : KeysKept(StatsAfter(k - 1), StatsAfter(k))

\* A step of create_event keeps every row there was, and a step after which a
\* key is gone is a successful delete_event, patch_event or rebuild_stats
\* that leaves the rows the replay of all the stored events builds from empty
\* tables.
KeysLostOnlyByRebuild ==
    /\ resp'.op = "create_event" => KeysKept(stats, stats')
    /\ ~KeysKept(stats, stats') =>
          /\ resp'.op \in {"delete_event", "patch_event", "rebuild_stats"}
          /\ resp'.status = 200
          /\ stats' = Replay(NoStats, RebuildOrder(events'), events')

\* C29: no applied event, live or replayed, removes an aggregate row: a row
\* persists through every later append; and rows disappear only in a
\* successful delete_event, patch_event or rebuild_stats, whose wipe removes
\* every row and is followed in the same request by the full replay.
AggregateLifecycle ==
    /\ []AppliedEventsKeepKeys
    /\ [][KeysLostOnlyByRebuild]_vars

\* C29 witness: the second event has been deleted and the tables, rebuilt from
\* the one that is left, hold the rows of one player and one team.
AggregateLifecycleWitness ==
    /\ Succeeded("delete_event")
    /\ resp.body = <<2>>
    /\ Cardinality(events) = 1
    /\ Keys(stats).p = {1}
    /\ Keys(stats).t = {HomeTeam}

InGameOrder(seq) ==
    \A i, j \in DOMAIN seq :
       i < j =>
          /\ GamePeriodRank(seq[i].period) <= GamePeriodRank(seq[j].period)
          /\ seq[i].period = seq[j].period
                => seq[i].game_clock_seconds >= seq[j].game_clock_seconds

\* The stored events were applied one by one in the order of their submission
\* (ascending id), and that order is the game's.
SubmittedInGameOrder ==
    /\ Len(applied) = Cardinality(events)
    /\ {applied[i] : i \in DOMAIN applied} = events
    /\ \A i, j \in DOMAIN applied : i < j => applied[i].id < applied[j].id
    /\ InGameOrder(applied)

\* C31 (as claimed): when the events of the game were submitted in game order,
\* overtime included, the live aggregates after the last append are the ones
\* rebuild_game_stats produces, in every field.
ChronologicalAppendEquivalence ==
    (Succeeded("create_event") /\ SubmittedInGameOrder)
        => Rows(stats) = Rows(RebuildGameStats(stats, events))

\* The event fetches or inserts the aggregate row of the player.
FetchesRowOf(e, player) ==
    /\ player # 0
    /\ \/ /\ e.player_id = player
          /\ e.event_type \in
                {"SHOT_MADE", "SHOT_MISSED", "REBOUND", "ASSIST", "STEAL",
                 "BLOCK", "TURNOVER", "FOUL", "SUBSTITUTION"}
       \/ /\ e.second_player_id = player
          /\ e.event_type = "SUBSTITUTION"

\* The team of the first of the first k applied events that fetches the
\* player's row.
FirstTeam(player, k) ==
    LET first == CHOOSE i \in 1..k :
                    /\ FetchesRowOf(applied[i], player)
                    /\ \A j \in 1..(i - 1) : ~FetchesRowOf(applied[j], player)
    IN applied[first].team_id

\* C33: the team_id of a player's row is the team of the first applied event
\* that inserted the row, whatever team later events naming the player carry;
\* and a made shot worth p of a team of the game changes the plus_minus of an
\* on-court player by +p when that stored team is the shooting team and by -p
\* when it is the other one, the shooter included.
StoredTeamFixed ==
    \A k \in 1..Len(applied), player \in Players :
       LET e == applied[k]
           was == PlayerRow(StatsAfter(k - 1), player)
           now == PlayerRow(StatsAfter(k), player)
           p == IF e.shot_type = "THREE_POINT" THEN 3
                ELSE IF e.shot_type = "FREE_THROW" THEN 1 ELSE 2
       IN (\E i \in 1..k : FetchesRowOf(applied[i], player)) =>
             /\ now.team_id = FirstTeam(player, k)
             /\ (e.event_type = "SHOT_MADE" /\ e.team_id \in {HomeTeam, AwayTeam}) =>
                   now.plus_minus - was.plus_minus =
                      IF ~now.is_on_court THEN 0
                      ELSE IF FirstTeam(player, k) = e.team_id THEN p
                      ELSE IF FirstTeam(player, k) = OtherTeam(e.team_id) THEN 0 - p
                      ELSE 0

\* C33 witness: a player entered with the home team has made a three-point
\* shot recorded for the away team: the row is still the home team's, holds
\* the 3 points and is charged them in plus_minus.
StoredTeamFixedWitness ==
    \E k \in 1..Len(applied) :
       LET e == applied[k]
           now == PlayerRow(StatsAfter(k), e.player_id)
       IN /\ e.event_type = "SHOT_MADE"
          /\ e.team_id = AwayTeam
          /\ e.player_id # 0
          /\ now.team_id = HomeTeam
          /\ now.is_on_court
          /\ now.points = 3
          /\ now.plus_minus = 0 - 3

\* The scoring counters of a row agree with one another.
ScoringConsistent(row) ==
    /\ row.field_goals_made <= row.field_goals_attempted
    /\ row.two_point_made <= row.two_point_attempted
    /\ row.three_point_made <= row.three_point_attempted
    /\ row.free_throws_made <= row.free_throws_attempted
    /\ row.field_goals_made = row.two_point_made + row.three_point_made
    /\ row.points = 2 * row.two_point_made + 3 * row.three_point_made
                        + row.free_throws_made

\* C34: in every player row and every team row each made counter is at most
\* its attempted counter, field_goals_made = two_point_made + three_point_made
\* and points = 2 * two_point_made + 3 * three_point_made + free_throws_made.
ScoringConsistency ==
    /\ \A x \in DOMAIN stats.p : ScoringConsistent(stats.p[x])
    /\ \A x \in DOMAIN stats.t : ScoringConsistent(stats.t[x])

\* C34 witness: a player's row and the team's row hold a made three-point shot
\* and a made free throw: 4 points, one field goal.
ScoringConsistencyWitness ==
    /\ \E x \in DOMAIN stats.p :
          /\ stats.p[x].three_point_made = 1
          /\ stats.p[x].free_throws_made = 1
          /\ stats.p[x].points = 4
    /\ \E x \in DOMAIN stats.t :
          /\ stats.t[x].three_point_made = 1
          /\ stats.t[x].free_throws_made = 1
          /\ stats.t[x].field_goals_made = 1

\* The sum of the values of a by-period column.
RECURSIVE SumOfPeriods(_)
SumOfPeriods(json) ==
    IF json = <<>> THEN 0
    ELSE Head(json).value + SumOfPeriods(Tail(json))

\* C35: in every player row and every team row the values of points_by_period
\* add up to points; in every team row the values of fg_attempted_by_period
\* add up to field_goals_attempted and those of fg_made_by_period to
\* field_goals_made.
PeriodBreakdownConsistency ==
    /\ \A x \in DOMAIN stats.p :
          SumOfPeriods(stats.p[x].points_by_period) = stats.p[x].points
    /\ \A x \in DOMAIN stats.t :
          /\ SumOfPeriods(stats.t[x].points_by_period) = stats.t[x].points
          /\ SumOfPeriods(stats.t[x].fg_attempted_by_period)
                = stats.t[x].field_goals_attempted
          /\ SumOfPeriods(stats.t[x].fg_made_by_period)
                = stats.t[x].field_goals_made

\* C35 witness: a team has scored in two periods, a three-point shot and a free
\* throw: two keys of points_by_period adding up to 4, one field goal counted
\* by period.
PeriodBreakdownConsistencyWitness ==
    \E x \in DOMAIN stats.t :
       /\ Len(stats.t[x].points_by_period) = 2
       /\ stats.t[x].points = 4
       /\ Len(stats.t[x].fg_made_by_period) = 1
       /\ stats.t[x].field_goals_made = 1
       /\ \E y \in DOMAIN stats.p : Len(stats.p[y].points_by_period) = 2

\* The event fetches or inserts the aggregate row of its team.
FetchesTeamRow(e) ==
    e.event_type \in
       {"SHOT_MADE", "SHOT_MISSED", "REBOUND", "ASSIST", "STEAL", "BLOCK",
        "TURNOVER", "FOUL", "TIMEOUT"}

ReboundCounts(st) ==
    [p |-> { <<st.p[x].player_id, st.p[x].rebounds_offensive,
               st.p[x].rebounds_defensive, st.p[x].rebounds_total>> :
             x \in DOMAIN st.p },
     t |-> { <<st.t[x].team_id, st.t[x].rebounds_offensive,
               st.t[x].rebounds_defensive, st.t[x].rebounds_total>> :
             x \in DOMAIN st.t }]

\* C37: for the stored events as they are, the rebounds are classified alike
\* whether they were applied live, by the rebuild's replay, or by a replay in any
\* other order: whenever a rebound is stored, every replay of the stored events
\* yields the rebound counters the aggregates hold.
ReboundOrderIndependence ==
    (\E r \in events : r.event_type = "REBOUND") =>
       \A seq \in Arrangements(events) :
          ~ReplayRaises(seq) =>
             ReboundCounts(Replay(NoStats, seq, events)) = ReboundCounts(stats)

\* C37 witness: a rebuild has replayed a rebound before the missed shot of its
\* team that comes later in the game and has the smaller id: the rebound is
\* counted offensive.
ReboundOrderIndependenceWitness ==
    /\ Succeeded("rebuild_stats")
    /\ Len(applied) = 2
    /\ applied[1].event_type = "REBOUND"
    /\ applied[2].event_type = "SHOT_MISSED"
    /\ applied[2].id < applied[1].id
    /\ applied[2].game_clock_seconds < applied[1].game_clock_seconds
    /\ applied[2].team_id = applied[1].team_id
    /\ TeamRow(stats, applied[1].team_id).rebounds_offensive = 1

\* Clock readings within a period of 480 seconds.
InPeriodReadings == {c \in ClockReadings : c <= 480}

\* The instant (p1, c1) is not after the instant (p2, c2) in the game.
NotAfter(p1, c1, p2, c2) ==
    \/ GamePeriodRank(p1) < GamePeriodRank(p2)
    \/ p1 = p2 /\ c1 >= c2

\* _calc_elapsed_seconds is additive over every three readings in game order
\* with clocks within 0..480.
ElapsedAdditiveOnReadings ==
    \A pa \in Periods, pb \in Periods, pc \in Periods :
       \A ca \in InPeriodReadings, cb \in InPeriodReadings,
          cc \in InPeriodReadings :
          (NotAfter(pa, ca, pb, cb) /\ NotAfter(pb, cb, pc, cc)) =>
             CalcElapsedSeconds(pa, ca, pc, cc)
                = CalcElapsedSeconds(pa, ca, pb, cb)
                     + CalcElapsedSeconds(pb, cb, pc, cc)

\* The positions in applied of the substitutions that name the player.
SubstitutionsOf(player) ==
    {k \in DOMAIN applied : Naming(applied[k], player)}

\* The player entered once and, in game order and with clocks within 0..480,
\* was from then on only taken off and put straight back in by one and the
\* same substitution.
StraightBackIn(player) ==
    LET subs == SubstitutionsOf(player)
    IN /\ subs # {}
       /\ \A k \in subs :
             /\ applied[k].second_player_id = player
             /\ applied[k].game_clock_seconds <= 480
             /\ (\E j \in subs : j < k) => applied[k].player_id = player
       /\ \A j, k \in subs :
             j < k => NotAfter(applied[j].period, applied[j].game_clock_seconds,
                               applied[k].period, applied[k].game_clock_seconds)

\* C38: _calc_elapsed_seconds(a, c) = _calc_elapsed_seconds(a, b) +
\* _calc_elapsed_seconds(b, c) for readings a, b, c in game order with clocks
\* in 0..480; and a player who, once entered, was only subbed out and straight
\* back in holds, with the time an exit at any later reading would credit,
\* what a player who entered at the same instant and stayed would be credited.
ElapsedAdditivity ==
    /\ ElapsedAdditiveOnReadings
    /\ \A player \in Players :
          StraightBackIn(player) =>
             LET subs == SubstitutionsOf(player)
                 first == applied[CHOOSE k \in subs : \A j \in subs : k <= j]
                 row == PlayerRow(stats, player)
             IN /\ row.is_on_court
                /\ \A pc \in Periods, cc \in InPeriodReadings :
                      NotAfter(row.last_sub_period, row.last_sub_clock, pc, cc) =>
                         row.seconds_played
                            + CalcElapsedSeconds(row.last_sub_period,
                                                 row.last_sub_clock, pc, cc)
                         = CalcElapsedSeconds(first.period,
                                              first.game_clock_seconds, pc, cc)

\* C38 witness: a player entered at 480 of the fourth quarter was subbed out
\* and straight back in at 400: 80 seconds played, on court, marked at 400.
ElapsedAdditivityWitness ==
    \E player \in Players :
       LET row == PlayerRow(stats, player)
       IN /\ StraightBackIn(player)
          /\ Cardinality(SubstitutionsOf(player)) = 2
          /\ row.is_on_court
          /\ row.seconds_played = 80
          /\ row.last_sub_clock = 400

\* The aggregate rows of game g, read off the tables.
AggregatesOf(tables, g) ==
    [p |-> {tables.p[x] : x \in {y \in DOMAIN tables.p : tables.p[y].game_id = g}},
     t |-> {tables.t[x] : x \in {y \in DOMAIN tables.t : tables.t[y].game_id = g}}]

\* The aggregates of each game are those the engine derives from the events
\* of that game alone: the game's history holds events of the game only, and
\* applying it to empty tables, every lookup reading the stored events of
\* that game_id only, gives the game's rows.
OwnEventsExplainAggregates ==
    \A g \in Games :
       LET own == {e \in events : e.game_id = g}
           alone == Replay(NoStats, applied[g], own)
       IN /\ \A k \in DOMAIN applied[g] : applied[g][k] \in own
          /\ AggregatesOf(stats, g)
                = [p |-> {[game_id |-> g, row |-> alone.p[x]] : x \in DOMAIN alone.p},
                   t |-> {[game_id |-> g, row |-> alone.t[x]] : x \in DOMAIN alone.t}]

\* A request leaves the aggregates of every game it does not address as they
\* were.
OtherGamesKept ==
    \A g \in Games :
       g # resp'.game => AggregatesOf(stats', g) = AggregatesOf(stats, g)

\* C32: a create, delete, patch or rebuild on game G leaves every player and
\* team aggregate of every other game unchanged, and the aggregates of G
\* (rebound attribution and plus_minus included) are what the events of G
\* alone give: no missed shot and no on-court player of another game is read.
GameIsolation ==
    /\ []OwnEventsExplainAggregates
    /\ [][OtherGamesKept]_vars

\* C32 witness: game 1 holds a missed shot of the home team and its aggregates;
\* a later rebound of the home team in game 2, which holds no miss, is counted
\* defensive.
GameIsolationWitness ==
    /\ \E m \in events, r \in events :
          /\ m.game_id = 1 /\ m.event_type = "SHOT_MISSED"
          /\ r.game_id = 2 /\ r.event_type = "REBOUND"
          /\ m.id < r.id /\ m.team_id = r.team_id
    /\ resp.game = 2
    /\ AggregatesOf(stats, 1).t # {}
    /\ \E x \in AggregatesOf(stats, 2).t :
          x.row.rebounds_defensive = 1 /\ x.row.rebounds_offensive = 0

====
